---- MODULE Spec2Model ----
(***************************************************************************)
(* A model of the EMA trend-following trading engine.                      *)
(*                                                                         *)
(*   - the orchestrator (runTradingLoop of server.ts) with the exchange it *)
(*     talks to through okxService (fetchAccountData, executeOrder,        *)
(*     placeAlgoStrategy, checkAndCancelOrphanedAlgos, updatePositionTPSL);*)
(*   - the decision engine (analyzeCoin of aiService, the log-backtracking *)
(*     four-stage version) as pure operators;                              *)
(*   - the position lifecycle over successive decision cycles.             *)
(*                                                                         *)
(* Units.  Sizes are integers counting 0.01 contract; prices are integers  *)
(* counting 0.01 (the tick of ETH and SOL, two decimals); money (equity,   *)
(* upl, margin) is an integer counting 0.001 USDT.  The code computes in   *)
(* IEEE doubles; the model computes the same expressions in exact          *)
(* arithmetic, comparing fractions by cross-multiplication, and models     *)
(* toFixed as rounding to the nearest unit.                                *)
(***************************************************************************)
EXTENDS Integers, Sequences, FiniteSets, TLC

\* ------------------------------------------------------------ constants

\* COIN_CONFIG: contractVal = ctN/ctD coins per contract, minSz = minU units
\* of 0.01 contract, prec = the decimals of minSz, tickSize = tick units of 0.01.
COIN_CONFIG ==
  [ ETH |-> [ctN |-> 1, ctD |-> 10,  minU |-> 1,   prec |-> 2, tick |-> 1],
    BNB |-> [ctN |-> 1, ctD |-> 100, minU |-> 100, prec |-> 0, tick |-> 10],
    SOL |-> [ctN |-> 1, ctD |-> 1,   minU |-> 1,   prec |-> 2, tick |-> 1] ]

\* Object.keys(COIN_CONFIG), in insertion order: the coins the runtime loop
\* is followed with.
CoinOrder == <<"ETH", "SOL">>

Coins == {CoinOrder[i] : i \in 1..Len(CoinOrder)}

\* DEFAULT_LEVERAGE = "20"
DEFAULT_LEVERAGE == 20

\* TAKER_FEE_RATE = 0.0005 = 1 / TAKER_FEE_DEN
TAKER_FEE_DEN == 2000

\* ------------------------------------------------------------- helpers

\* Number.prototype.toFixed on a non-negative fraction n/d: the nearest
\* integer count of units, a half rounding up.
RoundDiv(n, d) == (n + (d \div 2)) \div d

Min(a, b) == IF a <= b THEN a ELSE b

\* A position absent from accountData.positions.
NoPos ==
  [posSide |-> "none", pos |-> 0, avgPx |-> 0, upl |-> 0, margin |-> 0,
   leverage |-> 0, cTime |-> 0, slTriggerPx |-> 0]

\* ------------------------------------------------- the decision engine

\* The comparisons of analyze1HTrend without its two guards.
analyze1HTrendUnguarded(candles) ==
  IF candles.c > candles.ema60 /\ candles.ema15 > candles.ema60 THEN "UP"
  ELSE IF candles.c < candles.ema60 /\ candles.ema15 < candles.ema60 THEN "DOWN"
  ELSE "NEUTRAL"

\* analyze1HTrend reads the length of the series and its latest candle:
\* candles1H = [len, c, ema15, ema60] (ema15 = 0 or ema60 = 0: missing).
analyze1HTrend(candles) ==
  IF candles.len < 100 THEN "NEUTRAL"
  ELSE IF candles.ema15 = 0 \/ candles.ema60 = 0 THEN "NEUTRAL"
  ELSE IF candles.c > candles.ema60 /\ candles.ema15 > candles.ema60 THEN "UP"
  ELSE IF candles.c < candles.ema60 /\ candles.ema15 < candles.ema60 THEN "DOWN"
  ELSE "NEUTRAL"

\* analyze1HTrend of services/aiService.ts: the direction follows the two
\* averages alone; the close is compared with the open only, for the wording
\* of the description.
analyze1HTrendCross(candles) ==
  IF candles.len < 100 THEN "NEUTRAL"
  ELSE IF candles.ema15 = 0 \/ candles.ema60 = 0 THEN "NEUTRAL"
  ELSE IF candles.ema15 > candles.ema60 THEN "UP"
  ELSE IF candles.ema15 < candles.ema60 THEN "DOWN"
  ELSE "NEUTRAL"

Max(a, b) == IF a >= b THEN a ELSE b

TOLERANCE_CANDLES == 5

LOOKBACK_WINDOW == 5

\* The lookbackLimit of the stop scan.
ZONE_LOOKBACK == 150

NoSignal == [signal |-> FALSE, action |-> "HOLD", sl |-> 0]

\* The no-signal result of analyze3mEntry with its reason.
Hold(reason) == [signal |-> FALSE, action |-> "HOLD", sl |-> 0, reason |-> reason]

\* A test of the latest candle alone, in place of a transition test.
goldNow(p, c) == c.ema15 > c.ema60

\* The transition tests of analyze3mEntry on two consecutive candles p, c.
crossedUp(p, c) == p.ema15 <= p.ema60 /\ c.ema15 > c.ema60

crossedDown(p, c) == p.ema15 >= p.ema60 /\ c.ema15 < c.ema60

\* The backward scan for the start of the current zone.  candles is indexed
\* from 1 (index i here is index i - 1 of the code); 0 stands for the -1 of
\* crossIndex.  The transition is tested before the safety break.
RECURSIVE crossIndex(_, _, _)
crossIndex(candles, dir, i) ==
  IF i <= 1 THEN 0
  ELSE IF (IF dir = "UP" THEN crossedUp(candles[i - 1], candles[i])
                         ELSE crossedDown(candles[i - 1], candles[i])) THEN i
  ELSE IF Len(candles) - i > TOLERANCE_CANDLES + 2 THEN 0
  ELSE crossIndex(candles, dir, i - 1)

\* The least and the greatest element of a non-empty set of integers.
Least(S) == CHOOSE m \in S : \A y \in S : m <= y

Greatest(S) == CHOOSE m \in S : \A y \in S : m >= y

\* The candles the stop scan of the tolerance version visits from index i
\* downwards: it stops before the nearest candle outside the zone left behind
\* (ema15 <= ema60 before a cross upwards, ema15 >= ema60 before a cross
\* downwards), at the first candle, or after lookbackLimit candles.
zoneOf(candles, dir, i, lookbackLimit) ==
  LET outside == {y \in 1..i : IF dir = "UP" THEN candles[y].ema15 > candles[y].ema60
                                             ELSE candles[y].ema15 < candles[y].ema60}
      from == IF outside = {} THEN 1 ELSE Greatest(outside) + 1
  IN Max(from, i - lookbackLimit + 1)..i

\* lowestInZone: the lowest low of the run of candles with ema15 <= ema60 that
\* ends at i, starting from the low of candle i.
lowestInZone(candles, i, lookbackLimit) ==
  Least({candles[i].l} \cup {candles[y].l : y \in zoneOf(candles, "UP", i, lookbackLimit)})

highestInZone(candles, i, lookbackLimit) ==
  Greatest({candles[i].h} \cup {candles[y].h : y \in zoneOf(candles, "DOWN", i, lookbackLimit)})

\* analyze3mEntry (the tolerance version): candles is the sequence of the 3m
\* candles [ema15, ema60, l, h, c].
analyze3mEntry(candles, trendDirection) ==
  IF Len(candles) < 100 THEN Hold("insufficient data")
  ELSE
    LET curr == candles[Len(candles)]
        currentGold == curr.ema15 > curr.ema60
    IN IF curr.ema15 = 0 \/ curr.ema60 = 0 THEN Hold("indicators missing")
       ELSE IF trendDirection = "UP" THEN
         IF ~currentGold THEN Hold("trend up, entry window passed or death zone")
         ELSE \* bound once: the index where the scan stopped
              LET x == crossIndex(candles, "UP", Len(candles))
              IN IF x # 0 /\ Len(candles) - x <= TOLERANCE_CANDLES
                 THEN [signal |-> TRUE, action |-> "BUY",
                       sl |-> lowestInZone(candles, x - 1, ZONE_LOOKBACK),
                       reason |-> "trend up, golden cross within tolerance"]
                 ELSE Hold("trend up, entry window passed or death zone")
       ELSE IF trendDirection = "DOWN" THEN
         IF currentGold THEN Hold("trend down, entry window passed or gold zone")
         ELSE LET x == crossIndex(candles, "DOWN", Len(candles))
              IN IF x # 0 /\ Len(candles) - x <= TOLERANCE_CANDLES
                 THEN [signal |-> TRUE, action |-> "SELL",
                       sl |-> highestInZone(candles, x - 1, ZONE_LOOKBACK),
                       reason |-> "trend down, death cross within tolerance"]
                 ELSE Hold("trend down, entry window passed or gold zone")
       ELSE Hold("trend unclear")

\* The scan of services/aiService.ts for the prior zone, from x down to the
\* first candle: candles outside the zone are skipped until a candle of the
\* zone is found (at index last), and the first one after that ends the scan.
\* [found, ext]: foundDeathZone / foundGoldZone and the extreme low / high of
\* the candles visited inside the zone.
priorZone(candles, dir, x) ==
  LET inZone(c) == IF dir = "UP" THEN c.ema15 < c.ema60 ELSE c.ema15 > c.ema60
      inside == {y \in 1..x : inZone(candles[y])}
  IN IF inside = {} THEN [found |-> FALSE, ext |-> 0]
     ELSE LET last == Greatest(inside)
              outside == {y \in 1..last : ~inZone(candles[y])}
              from == IF outside = {} THEN 1 ELSE Greatest(outside) + 1
          IN [found |-> TRUE,
              ext |-> IF dir = "UP" THEN Least({candles[y].l : y \in from..last})
                                    ELSE Greatest({candles[y].h : y \in from..last})]

\* The loop over k = 0 .. LOOKBACK_WINDOW - 1 of services/aiService.ts.
RECURSIVE windowScan(_, _, _)
windowScan(candles, dir, k) ==
  LET idx == Len(candles) - k
  IN IF k >= LOOKBACK_WINDOW \/ idx < 2 THEN Hold("no valid cross")
     ELSE IF (IF dir = "UP" THEN crossedUp(candles[idx - 1], candles[idx])
                            ELSE crossedDown(candles[idx - 1], candles[idx]))
          THEN LET z == priorZone(candles, dir, idx - 1)
               IN IF z.found
                  THEN [signal |-> TRUE, action |-> IF dir = "UP" THEN "BUY" ELSE "SELL",
                        sl |-> z.ext, reason |-> "valid entry"]
                  ELSE windowScan(candles, dir, k + 1)
     ELSE windowScan(candles, dir, k + 1)

\* analyze3mEntry of services/aiService.ts (the lookback-window version).
analyze3mEntryWindow(candles, trendDirection) ==
  IF Len(candles) < 100 THEN Hold("insufficient data")
  ELSE
    LET curr == candles[Len(candles)]
        currentGold == curr.ema15 > curr.ema60
    IN IF curr.ema15 = 0 \/ curr.ema60 = 0 THEN Hold("indicators missing")
       ELSE IF trendDirection = "UP" THEN
         IF ~currentGold THEN Hold("trend up, but death zone") ELSE windowScan(candles, "UP", 0)
       ELSE IF trendDirection = "DOWN" THEN
         IF currentGold THEN Hold("trend down, but gold zone") ELSE windowScan(candles, "DOWN", 0)
       ELSE Hold("no valid cross")

hasPosition(p) == p.posSide # "none" /\ p.pos > 0

\* netRoi >= k / 100, where
\*   estTotalFee = (sizeCoins * avgEntry + sizeCoins * currentPrice) * TAKER_FEE_RATE
\*   netRoi      = margin > 0 ? (rawUpl - estTotalFee) / margin : 0
\* In model units estTotalFee = pos * ctN * (avgPx + last) / (ctD * 10 * TAKER_FEE_DEN).
NetRoiGE(cfg, p, last, k) ==
  IF p.margin > 0
  THEN p.upl * 10 * TAKER_FEE_DEN * cfg.ctD - p.pos * cfg.ctN * (p.avgPx + last)
         >= k * p.margin * (TAKER_FEE_DEN \div 10) * cfg.ctD
  ELSE 0 >= k

\* parseFloat(p.leverage) || 20
leverageVal(p) == IF p.leverage # 0 THEN p.leverage ELSE 20

\* (estInitialQty * pendingCloseRatio).toFixed(0), in whole contracts, where
\*   equityAtEntry = totalEquity - rawUpl
\*   estInitialQty = equityAtEntry * 0.10 * leverageVal / (avgEntry * CONTRACT_VAL)
\* and ratio10 = 10 * pendingCloseRatio.
TargetQty(cfg, p, totalEq, ratio10) ==
  RoundDiv((totalEq - p.upl) * leverageVal(p) * cfg.ctD * ratio10,
           1000 * p.avgPx * cfg.ctN)

\* relevantLogs.some(l => l.message.includes("阶段X")): a TRADE log of this
\* coin, newer than the position, whose message holds the stage's tag.
hasStage(logs, coin, p, tag) ==
  \E l \in logs : /\ l.time > p.cTime
                  /\ l.coin = coin
                  /\ l.type = "TRADE"
                  /\ tag \in l.stages

\* The three partial-close stages: tag, net-ROI threshold in percent, and
\* the share of the initial quantity in tenths.
Stages ==
  << [tag |-> "s1", roi |-> 5,  ratio10 |-> 3],
     [tag |-> "s2", roi |-> 8,  ratio10 |-> 3],
     [tag |-> "s3", roi |-> 12, ratio10 |-> 2] >>

StageTags == {Stages[i].tag : i \in 1..Len(Stages)}

\* if (netRoi >= threshold && !hasStageN) { pendingCloseRatio += ...; hitStages.push(..) }
StageHit(logs, coin, cfg, p, last, st) ==
  NetRoiGE(cfg, p, last, st.roi) /\ ~hasStage(logs, coin, p, st.tag)

hitStages(logs, coin, cfg, p, last) ==
  SelectSeq(Stages, LAMBDA st : StageHit(logs, coin, cfg, p, last, st))

RECURSIVE SumRatio(_)
SumRatio(hs) == IF hs = <<>> THEN 0 ELSE Head(hs).ratio10 + SumRatio(Tail(hs))

\* The break-even rule without the comparison with the existing stop.
BeUnratcheted(logs, coin, cfg, p, last) ==
  hasStage(logs, coin, p, "s1") \/ NetRoiGE(cfg, p, last, 5)

\* Break-even maintenance.  bePrice = avgEntry +- avgEntry * 0.002 is compared
\* with the current stop as computed, and written with toFixed(decimals).
BeNeeded(logs, coin, cfg, p, last) ==
  /\ hasStage(logs, coin, p, "s1") \/ NetRoiGE(cfg, p, last, 5)
  /\ IF p.posSide = "long"
     THEN ~(p.slTriggerPx * 1000 >= p.avgPx * 1002)
     ELSE ~(p.slTriggerPx > 0 /\ p.slTriggerPx * 1000 <= p.avgPx * 998)

BeStop(p) ==
  IF p.posSide = "long" THEN RoundDiv(p.avgPx * 1002, 1000)
                        ELSE RoundDiv(p.avgPx * 998, 1000)

\* Tail trailing stop.  priceGap = 0.05 * avgEntry / leverageVal,
\* targetSL = currentPrice -+ priceGap; written with toFixed(decimals).
\* TrailNum / TrailDen is targetSL.
TrailDen(p) == 100 * leverageVal(p)

TrailNum(p, last) ==
  IF p.posSide = "long" THEN last * TrailDen(p) - 5 * p.avgPx
                        ELSE last * TrailDen(p) + 5 * p.avgPx

TrailNeeded(logs, coin, cfg, p, last) ==
  /\ hasStage(logs, coin, p, "s3") \/ NetRoiGE(cfg, p, last, 12)
  /\ \/ p.slTriggerPx = 0
     \/ IF p.posSide = "long"
        THEN TrailNum(p, last) > p.slTriggerPx * TrailDen(p)
        ELSE TrailNum(p, last) < p.slTriggerPx * TrailDen(p)

TrailStop(p, last) == RoundDiv(TrailNum(p, last), TrailDen(p))

\* finalSize is either a percentage of the account ("10%") or a number of
\* contracts; finalSL = 0 stands for the empty string.
NoSize == [pct |-> 0, num |-> 0]

\* The decision logic of analyzeCoin up to the prompt: finalAction,
\* finalSize, finalSL and the stage tags that invalidationReason carries
\* ("同时满足阶段一+二" holds the tag of the first merged stage only;
\* "[阶段二风控]" holds the tag of stage two).
LocalLogic(coin, md, acct, logs) ==
  LET cfg   == COIN_CONFIG[coin]
      p     == acct.positions[coin]
      last  == md.last
      trend == analyze1HTrend(md.candles1H)
      hs    == hitStages(logs, coin, cfg, p, last)
      be    == BeNeeded(logs, coin, cfg, p, last)
      tr    == TrailNeeded(logs, coin, cfg, p, last)
  IN
  IF hasPosition(p)
  THEN IF \/ p.posSide = "long" /\ trend = "DOWN"
          \/ p.posSide # "long" /\ trend = "UP"
       THEN [action |-> "CLOSE", size |-> NoSize, sl |-> 0, hit |-> <<>>, tags |-> {}]
       ELSE IF SumRatio(hs) > 0
       THEN [action |-> IF p.posSide = "long" THEN "SELL" ELSE "BUY",
             size   |-> [pct |-> 0, num |-> TargetQty(cfg, p, acct.totalEq, SumRatio(hs))],
             sl     |-> 0,
             hit    |-> [i \in 1..Len(hs) |-> hs[i].tag],
             tags   |-> {hs[1].tag}]
       ELSE [action |-> IF be \/ tr THEN "UPDATE_TPSL" ELSE "HOLD",
             size   |-> NoSize,
             sl     |-> IF tr THEN TrailStop(p, last)
                        ELSE IF be THEN BeStop(p) ELSE 0,
             hit    |-> <<>>,
             tags   |-> IF tr THEN {} ELSE IF be THEN {"s2"} ELSE {}]
  ELSE IF md.entry3m.signal
       THEN [action |-> md.entry3m.action, size |-> [pct |-> 10, num |-> 0],
             sl |-> md.entry3m.sl, hit |-> <<>>, tags |-> {}]
       ELSE [action |-> "HOLD", size |-> NoSize, sl |-> 0, hit |-> <<>>, tags |-> {}]

\* Quantization to the nearest multiple of MIN_SZ instead of the one below.
QuantizeNearest(rawN, rawD, cfg) == RoundDiv(rawN, rawD * cfg.minU) * cfg.minU

\* Math.floor(rawContracts / MIN_SZ) * MIN_SZ for rawContracts = rawN / rawD
\* units of 0.01 contract.
Quantize(rawN, rawD, cfg) == (rawN \div (rawD * cfg.minU)) * cfg.minU

RECURSIVE Pow10(_)
Pow10(n) == IF n = 0 THEN 1 ELSE 10 * Pow10(n - 1)

\* The size without the final toFixed.
KeepFraction(u, cfg) == u

\* parseFloat(x.toFixed(precision)) with precision = the decimals of MIN_SZ.
ToPrecision(u, cfg) == RoundDiv(u, Pow10(2 - cfg.prec)) * Pow10(2 - cfg.prec)

\* availEquity >= contracts * marginPerContract, where
\*   marginPerContract = CONTRACT_VAL * currentPrice / parseFloat(DEFAULT_LEVERAGE)
Affordable(cfg, availEq, last, u) ==
  availEq * 10 * DEFAULT_LEVERAGE * cfg.ctD >= u * cfg.ctN * last

\* The opening branch of the size calculation (!isClose).
OpenContracts(cfg, size, totalEq, availEq, last) ==
  LET target == IF size.pct > 0
                THEN ToPrecision(Quantize(totalEq * size.pct * cfg.ctD
                                            * (DEFAULT_LEVERAGE \div 10),
                                          cfg.ctN * last, cfg), cfg)
                ELSE ToPrecision(Quantize(size.num * 100, 1, cfg), cfg)
  IN IF Affordable(cfg, availEq, last, target) /\ target >= cfg.minU
     THEN target
     ELSE IF Affordable(cfg, availEq, last, cfg.minU) THEN cfg.minU ELSE 0

\* calcDetails of the opening branch: "[资金充足]", "[资金紧缺] 降级为最小单位"
\* or "[资金不足]".
OpenDetails(cfg, size, totalEq, availEq, last) ==
  LET target == IF size.pct > 0
                THEN ToPrecision(Quantize(totalEq * size.pct * cfg.ctD
                                            * (DEFAULT_LEVERAGE \div 10),
                                          cfg.ctN * last, cfg), cfg)
                ELSE ToPrecision(Quantize(size.num * 100, 1, cfg), cfg)
  IN IF Affordable(cfg, availEq, last, target) /\ target >= cfg.minU
     THEN "sufficient"
     ELSE IF Affordable(cfg, availEq, last, cfg.minU) THEN "minimum" ELSE "shortfall"

\* The closing branch of the size calculation (isClose).
CloseContracts(cfg, size, held) ==
  LET c0 == ToPrecision(Quantize(size.num * 100, 1, cfg), cfg)
      c1 == IF c0 < cfg.minU
            THEN IF held < cfg.minU THEN held
                 ELSE IF c0 > 0 THEN cfg.minU ELSE c0
            ELSE c0
      c2 == IF c1 > held THEN held ELSE c1
  IN ToPrecision(c2, cfg)

\* The decision returned from the catch block of analyzeCoin.
ErrorDecision(coin) ==
  [coin |-> coin, action |-> "HOLD", size |-> 0, stop_loss |-> 0,
   hit |-> <<>>, tags |-> {}, isClose |-> FALSE, rationale |-> "", error |-> TRUE]

\* The answer of callDeepSeek read as a new decision.
ApplyNarrativeAsDecision(d, llm) ==
  [d EXCEPT !.tags = @ \cup llm.mentions,
            !.action = IF llm.mentions # {} THEN "HOLD" ELSE @]

\* The answer of callDeepSeek is parsed and only market_assessment,
\* coin_analysis and reasoning are taken from it; llm.mentions are the stage
\* tags the returned reasoning text holds (none when the text is not JSON).
ApplyNarrative(d, llm) == [d EXCEPT !.tags = @ \cup llm.mentions]

\* analyzeCoin.  llm is the outcome of callDeepSeek: llm.ok = FALSE when it
\* throws (empty or invalid key, HTTP error, network failure).  rationale is
\* the part of calcDetails that ends up in decision.reasoning: the sizing
\* note is appended when a size is set, or when the action is still not HOLD
\* with no size; the funds branch has set HOLD before that test.
analyzeCoin(coin, md, acct, logs, llm) ==
  LET cfg     == COIN_CONFIG[coin]
      p       == acct.positions[coin]
      loc     == LocalLogic(coin, md, acct, logs)
      sized   == loc.action \in {"BUY", "SELL"}
      isClose == /\ sized
                 /\ hasPosition(p)
                 /\ \/ p.posSide = "long" /\ loc.action = "SELL"
                    \/ p.posSide = "short" /\ loc.action = "BUY"
      held    == IF hasPosition(p) THEN p.pos ELSE 0
      contracts == IF ~sized THEN 0
                   ELSE IF isClose THEN CloseContracts(cfg, loc.size, held)
                   ELSE OpenContracts(cfg, loc.size, acct.totalEq, acct.availEq, md.last)
      funds   == sized /\ ~isClose /\ contracts = 0
      action  == IF funds THEN "HOLD" ELSE loc.action
      calcDetails == IF ~sized THEN "" ELSE IF isClose THEN "close"
                     ELSE OpenDetails(cfg, loc.size, acct.totalEq, acct.availEq, md.last)
      appended == \/ contracts > 0 /\ action # "HOLD"
                  \/ ~(contracts > 0) /\ action # "HOLD" /\ ~isClose
  IN
  IF ~llm.ok THEN ErrorDecision(coin)
  ELSE ApplyNarrative(
       [coin      |-> coin,
        action    |-> action,
        size      |-> contracts,
        stop_loss |-> loc.sl,
        hit       |-> loc.hit,
        tags      |-> loc.tags,
        isClose   |-> isClose,
        rationale |-> IF appended THEN calcDetails ELSE "",
        error     |-> FALSE], llm)

\* ------------------------------ the size-ratio version of the engine
\* This version of analyzeCoin keeps no stage history: it infers the stage
\* from ratio = posSize / estInitialQty and the net ROI.

\* netRoi > k / 100
NetRoiGT(cfg, p, last, k) ==
  IF p.margin > 0
  THEN p.upl * 10 * TAKER_FEE_DEN * cfg.ctD - p.pos * cfg.ctN * (p.avgPx + last)
         > k * p.margin * (TAKER_FEE_DEN \div 10) * cfg.ctD
  ELSE 0 > k

\* ratio > k20 / 20, for ratio = posSize / estInitialQty.
\* The comparison a > b * c is taken on a \div c and a % c, which keeps the
\* products within 32 bits.
RatioGT(cfg, p, totalEq, k20) ==
  LET a == p.pos * p.avgPx * cfg.ctN * 20
      b == k20 * (totalEq - p.upl)
      c == leverageVal(p) * cfg.ctD
  IN \/ a \div c > b
     \/ a \div c = b /\ a % c > 0

isStage1Logic(cfg, p, totalEq, last) ==
  \/ NetRoiGE(cfg, p, last, 5) /\ RatioGT(cfg, p, totalEq, 17)
  \/ /\ ~RatioGT(cfg, p, totalEq, 17)
     /\ NetRoiGE(cfg, p, last, 5) /\ ~NetRoiGE(cfg, p, last, 8)

isStage2Logic(cfg, p, totalEq, last) ==
  \/ /\ NetRoiGE(cfg, p, last, 8)
     /\ RatioGT(cfg, p, totalEq, 11) /\ ~RatioGT(cfg, p, totalEq, 17)
  \/ /\ ~RatioGT(cfg, p, totalEq, 11)
     /\ NetRoiGE(cfg, p, last, 8) /\ ~NetRoiGE(cfg, p, last, 12)

isStage3Logic(cfg, p, totalEq, last) ==
  /\ NetRoiGE(cfg, p, last, 12)
  /\ RatioGT(cfg, p, totalEq, 6) /\ ~RatioGT(cfg, p, totalEq, 11)

isStage4Logic(cfg, p, totalEq, last) ==
  ~RatioGT(cfg, p, totalEq, 6) /\ NetRoiGE(cfg, p, last, 12)

\* let targetSell = estInitialQty * r; if (targetSell > posSize) targetSell = posSize;
\* targetSell.toFixed(0), in whole contracts.
TargetSell(cfg, p, totalEq, ratio10) ==
  IF (totalEq - p.upl) * leverageVal(p) * cfg.ctD * ratio10 > p.pos * 10 * p.avgPx * cfg.ctN
  THEN RoundDiv(p.pos, 100)
  ELSE TargetQty(cfg, p, totalEq, ratio10)

\* Stage four: finalSLVal = max(targetSL, floorSL) for a long, min for a short,
\* with targetSL = currentPrice -+ 0.05 * avgEntry / leverageVal and
\* floorSL = avgEntry +- 0.07 * avgEntry / leverageVal.
Stage4Stop(p, last) ==
  LET den    == 100 * leverageVal(p)
      target == IF p.posSide = "long" THEN last * den - 5 * p.avgPx
                                      ELSE last * den + 5 * p.avgPx
      floor  == IF p.posSide = "long" THEN p.avgPx * den + 7 * p.avgPx
                                      ELSE p.avgPx * den - 7 * p.avgPx
  IN IF p.posSide = "long"
     THEN RoundDiv(IF target >= floor THEN target ELSE floor, den)
     ELSE RoundDiv(IF target <= floor THEN target ELSE floor, den)

\* Special maintenance: finalAction === 'HOLD' && netRoi > 0.02, ratio <= 0.85
\* and the stop not beyond the entry price.
MaintenanceNeeded(cfg, p, totalEq, last) ==
  /\ NetRoiGT(cfg, p, last, 2)
  /\ ~RatioGT(cfg, p, totalEq, 17)
  /\ IF p.posSide = "long" THEN ~(p.slTriggerPx > p.avgPx)
                           ELSE ~(p.slTriggerPx > 0 /\ p.slTriggerPx < p.avgPx)

MaintenanceStop(p) ==
  IF p.posSide = "long" THEN RoundDiv(p.avgPx * 1001, 1000)
                        ELSE RoundDiv(p.avgPx * 999, 1000)

\* The decision logic of the size-ratio analyzeCoin up to the prompt.
LocalLogicRatio(coin, md, acct) ==
  LET cfg   == COIN_CONFIG[coin]
      p     == acct.positions[coin]
      last  == md.last
      E     == acct.totalEq
      trend == analyze1HTrend(md.candles1H)
      close == IF p.posSide = "long" THEN "SELL" ELSE "BUY"
      hold  == [action |-> "HOLD", size |-> NoSize, sl |-> 0, stage |-> 0]
  IN
  IF hasPosition(p)
  THEN IF \/ p.posSide = "long" /\ trend = "DOWN"
          \/ p.posSide # "long" /\ trend = "UP"
       THEN [hold EXCEPT !.action = "CLOSE"]
       ELSE IF isStage1Logic(cfg, p, E, last)
       THEN [action |-> close, size |-> [pct |-> 0, num |-> RoundDiv(p.pos * 3, 1000)],
             sl |-> 0, stage |-> 1]
       ELSE IF isStage2Logic(cfg, p, E, last)
       THEN [action |-> close, size |-> [pct |-> 0, num |-> TargetSell(cfg, p, E, 3)],
             sl |-> 0, stage |-> 2]
       ELSE IF isStage3Logic(cfg, p, E, last)
       THEN [action |-> close, size |-> [pct |-> 0, num |-> TargetSell(cfg, p, E, 2)],
             sl |-> 0, stage |-> 3]
       ELSE IF isStage4Logic(cfg, p, E, last)
       THEN IF ~NetRoiGE(cfg, p, last, 7)
            THEN [hold EXCEPT !.action = "CLOSE", !.stage = 4]
            ELSE [action |-> "UPDATE_TPSL", size |-> NoSize,
                  sl |-> Stage4Stop(p, last), stage |-> 4]
       ELSE IF MaintenanceNeeded(cfg, p, E, last)
       THEN [action |-> "UPDATE_TPSL", size |-> NoSize, sl |-> MaintenanceStop(p), stage |-> 0]
       ELSE hold
  ELSE IF md.entry3m.signal
       THEN [action |-> md.entry3m.action, size |-> [pct |-> 10, num |-> 0],
             sl |-> md.entry3m.sl, stage |-> 0]
       ELSE hold

\* The size calculation of the size-ratio version: whole contracts.
\*   targetAmountU = Math.min(totalEquity * pct, availEquity)
\*   contracts     = Math.floor(targetAmountU / marginPerContract)
OpenContractsRatio(cfg, size, totalEq, availEq, last) ==
  LET amount100 == IF totalEq * size.pct <= availEq * 100
                   THEN totalEq * size.pct ELSE availEq * 100
      c == IF size.pct > 0
           THEN ((amount100 * DEFAULT_LEVERAGE * cfg.ctD)
                    \div (1000 * cfg.ctN * last)) * 100
           ELSE size.num * 100
  IN IF c >= cfg.minU THEN c
     ELSE IF Affordable(cfg, availEq, last, cfg.minU) THEN cfg.minU ELSE 0

\* What the opening branch appends to decision.reasoning: "[保底交易]",
\* "[资金不足]", or only the planned size.
OpenDetailsRatio(cfg, size, totalEq, availEq, last) ==
  LET amount100 == IF totalEq * size.pct <= availEq * 100
                   THEN totalEq * size.pct ELSE availEq * 100
      c == IF size.pct > 0
           THEN ((amount100 * DEFAULT_LEVERAGE * cfg.ctD)
                    \div (1000 * cfg.ctN * last)) * 100
           ELSE size.num * 100
  IN IF c >= cfg.minU THEN "sufficient"
     ELSE IF Affordable(cfg, availEq, last, cfg.minU) THEN "minimum" ELSE "shortfall"

CloseContractsRatio(cfg, size, held) ==
  LET c == size.num * 100
  IN IF c >= cfg.minU THEN c
     ELSE IF held >= cfg.minU THEN cfg.minU ELSE (held \div 100) * 100

\* analyzeCoin, size-ratio version.
analyzeCoinRatio(coin, md, acct, llm) ==
  LET cfg     == COIN_CONFIG[coin]
      p       == acct.positions[coin]
      loc     == LocalLogicRatio(coin, md, acct)
      sized   == loc.action \in {"BUY", "SELL"}
      isClose == /\ sized
                 /\ hasPosition(p)
                 /\ \/ p.posSide = "long" /\ loc.action = "SELL"
                    \/ p.posSide = "short" /\ loc.action = "BUY"
      held    == IF hasPosition(p) THEN p.pos ELSE 0
      contracts == IF ~sized THEN 0
                   ELSE IF isClose THEN CloseContractsRatio(cfg, loc.size, held)
                   ELSE OpenContractsRatio(cfg, loc.size, acct.totalEq, acct.availEq, md.last)
  IN
  IF ~llm.ok THEN ErrorDecision(coin)
  ELSE [coin      |-> coin,
        action    |-> IF sized /\ contracts = 0 THEN "HOLD" ELSE loc.action,
        size      |-> contracts,
        stop_loss |-> loc.sl,
        hit       |-> IF loc.stage \in 1..3 /\ sized THEN <<Stages[loc.stage].tag>> ELSE <<>>,
        tags      |-> {},
        isClose   |-> isClose,
        rationale |-> IF sized /\ ~isClose
                      THEN OpenDetailsRatio(cfg, loc.size, acct.totalEq, acct.availEq, md.last)
                      ELSE IF isClose /\ contracts > 0 THEN "close" ELSE "",
        error     |-> FALSE]

\* ------------------------------------------------------------ variables

VARIABLES
  eIn,      \* engine run: the arguments of one analyzeCoin call
  eDec,     \* engine run: the decision it returned
  eDecR,    \* engine run: the decision of the size-ratio version
  ePhase,   \* engine run: "idle", "in" (called), "out" (returned)
  sVersion, \* lifecycle: the build in use, "fast", "server" or "ratio"
  sPos,     \* lifecycle: the position on the exchange, with its stop
  sLast,    \* lifecycle: the last traded price
  sLogs,    \* lifecycle: the system log handed to the engine
  sCycle,   \* lifecycle: analysis cycles run so far
  sDec,     \* lifecycle: the decision of the latest cycle
  sSnapSL,  \* lifecycle: the stop in the snapshot of the latest cycle
  sFired,   \* lifecycle: per stage, the cycles whose partial close it joined
  sFilled,  \* lifecycle: the stages whose partial close the exchange filled
  sUpd,     \* history: the latest UPDATE_TPSL decision and the prices since
  loop,                   \* the runtime loop in use: "server" or "fast"
  isSimulation,           \* config.isSimulation
  isRunning,              \* let isRunning
  isProcessing,           \* let isProcessing
  now,                    \* Date.now(), in seconds
  lastAnalysisTime,       \* let lastAnalysisTime
  lastCleanupTime,        \* let lastCleanupTime
  previousActiveInstIds,  \* let previousActiveInstIds
  marketData,             \* let marketData
  accountData,            \* let accountData
  latestDecisions,        \* let latestDecisions
  decisionHistory,        \* let decisionHistory
  logs,                   \* let logs (the TRADE entries)
  exPos,                  \* exchange: the position of each instrument
  exAlgos,                \* exchange: the pending conditional orders
  nextId,                 \* exchange: the next order id
  pc,                     \* per invocation of runTradingLoop: where it is suspended
  loc,                    \* per invocation: its local variables
  runs,                   \* invocations that passed the lock check
  skipped,                \* invocations that returned at the lock check
  sweepCancels,           \* history: the cancel requests of the sweeper
  lastSweep,              \* history: the latest finished checkAndCancelOrphanedAlgos
  lastExec,               \* history: the latest executeOrder call
  gIn,                    \* signal check: the 1H and the 3m series handed to the detectors
  gOut,                   \* signal check: what each version of the detectors returned
  gPhase                  \* signal check: "idle", "in" (before the call), "out" (after)

signalVars == <<gIn, gOut, gPhase>>

engineVars == <<eIn, eDec, eDecR, ePhase, signalVars>>

stageVars == <<sVersion, sPos, sLast, sLogs, sCycle, sDec, sSnapSL, sFired, sFilled, sUpd>>

serverVars == <<isRunning, isProcessing, lastAnalysisTime, lastCleanupTime,
                previousActiveInstIds, marketData, accountData, latestDecisions,
                decisionHistory, logs>>

exchangeVars == <<exPos, exAlgos, nextId>>

historyVars == <<sweepCancels, lastSweep, lastExec>>

orchVars == <<loop, isSimulation, now, serverVars, exchangeVars, pc, loc, runs, skipped,
              historyVars>>

vars == <<engineVars, stageVars, orchVars>>

\* analyzeCoin of services/aiService.ts (the layered take-profit engine).
\* uplRatio is the exchange's upl / margin.  md.vol: the latest 3m candle has
\* (high - low) / open >= 0.10; md.zone: the extreme the backward scan over the
\* 3m candles found for the most recent completed opposite zone, 0 when it
\* found none.  (posSize * 0.5).toFixed(2) and the stops are rounded to the
\* nearest unit.
analyzeCoinLevels(coin, md, acct, llm) ==
  LET cfg      == COIN_CONFIG[coin]
      p        == acct.positions[coin]
      isLong   == p.posSide = "long"
      trend    == analyze1HTrendCross(md.candles1H)
      uplGE(k) == p.upl * 100 >= k * p.margin
      reversal == \/ isLong /\ trend = "DOWN"
                  \/ ~isLong /\ trend = "UP"
      close    == reversal \/ md.vol \/ uplGE(15)
      partial  == /\ ~close
                  /\ \/ uplGE(10) /\ ~uplGE(13)
                     \/ uplGE(5) /\ ~uplGE(8)
      \* Level 2: the stop at half of the profit
      diff     == IF md.last >= p.avgPx THEN md.last - p.avgPx ELSE p.avgPx - md.last
      tpSL     == IF ~close /\ uplGE(10)
                  THEN IF isLong THEN RoundDiv(2 * p.avgPx + diff, 2)
                                 ELSE RoundDiv(2 * p.avgPx - diff, 2)
                  ELSE 0
      \* the ratchet
      currentSL == p.slTriggerPx
      proposed == IF isLong THEN md.zone - cfg.tick ELSE md.zone + cfg.tick
      zoneUpd  == /\ md.zone # 0
                  /\ \/ currentSL = 0
                     \/ IF isLong THEN proposed > currentSL ELSE proposed < currentSL
      structuralSL == IF zoneUpd THEN proposed ELSE currentSL
      merged   == IF tpSL = 0 THEN structuralSL
                  ELSE IF isLong THEN Max(structuralSL, tpSL)
                  ELSE IF structuralSL = 0 THEN tpSL ELSE Min(structuralSL, tpSL)
      shouldUpdate == ~close /\ (zoneUpd \/ tpSL # 0)
      half     == IF cfg.minU >= 100 THEN (RoundDiv(p.pos, 2) \div 100) * 100
                                     ELSE RoundDiv(p.pos, 2)
      \* the entry: 5% of the equity, at most 85% of the available equity
      amount   == Min(5 * acct.totalEq, 85 * acct.availEq)
      raw      == (amount * cfg.ctD * DEFAULT_LEVERAGE) \div (10 * cfg.ctN * md.last)
      floored  == IF cfg.minU >= 100 THEN (raw \div 100) * 100 ELSE raw
      opened   == IF floored >= cfg.minU THEN floored
                  ELSE IF 85 * acct.availEq * cfg.ctD * 2 >= cfg.ctN * md.last * cfg.minU
                       THEN cfg.minU ELSE 0
      none     == [coin |-> coin, action |-> "HOLD", size |-> 0, stop_loss |-> 0,
                   hit |-> <<>>, tags |-> {}, isClose |-> FALSE, rationale |-> "",
                   error |-> FALSE]
  IN
  IF ~llm.ok THEN ErrorDecision(coin)
  ELSE IF hasPosition(p) THEN
    IF close THEN [none EXCEPT !.action = "CLOSE"]
    ELSE IF partial THEN
      IF half > 0
      THEN [none EXCEPT !.action = IF isLong THEN "SELL" ELSE "BUY",
                        !.size = half, !.stop_loss = tpSL, !.isClose = TRUE,
                        !.rationale = "close"]
      ELSE [none EXCEPT !.stop_loss = tpSL]
    ELSE IF shouldUpdate THEN [none EXCEPT !.action = "UPDATE_TPSL", !.stop_loss = merged]
    ELSE none
  ELSE IF md.entry3m.signal THEN
    IF opened > 0
    THEN [none EXCEPT !.action = md.entry3m.action, !.size = opened,
                      !.stop_loss = md.entry3m.sl]
    ELSE [none EXCEPT !.stop_loss = md.entry3m.sl]
  ELSE none

\* ------------------------------------------- the exchange's bookkeeping

\* The exchange reports upl and margin of an isolated position of pos units
\* entered at avgPx when the mark price is last (leverage lev).
ExchangeUpl(cfg, side, pos, avgPx, last) ==
  IF side # "short" THEN (pos * cfg.ctN * (last - avgPx)) \div (10 * cfg.ctD)
                   ELSE (pos * cfg.ctN * (avgPx - last)) \div (10 * cfg.ctD)

ExchangeMargin(cfg, pos, avgPx, lev) ==
  (pos * cfg.ctN * avgPx) \div (10 * cfg.ctD * lev)

\* One entry of accountData.positions as fetchAccountData builds it.
MkPosition(cfg, side, pos, avgPx, last, sl, cTime) ==
  [posSide |-> side, pos |-> pos, avgPx |-> avgPx,
   upl |-> ExchangeUpl(cfg, side, pos, avgPx, last),
   margin |-> ExchangeMargin(cfg, pos, avgPx, DEFAULT_LEVERAGE),
   leverage |-> DEFAULT_LEVERAGE, cTime |-> cTime, slTriggerPx |-> sl]

\* ------------------------------------------ the state after construction

\* Concurrent invocations of runTradingLoop the model follows.
MaxInv == 2

Inv == 1..MaxInv

\* A flat instrument on the exchange.
Flat == [side |-> "none", pos |-> 0, avgPx |-> 0, cTime |-> 0]

NoSweep == [coin |-> "", done |-> FALSE, flat |-> FALSE, queried |-> FALSE,
            accepted |-> FALSE, pendingRO |-> {}, pendingOther |-> {}, cancelled |-> {}]

NoExec == [coin |-> "", opening |-> FALSE, done |-> FALSE, threw |-> FALSE,
           market |-> FALSE, stop |-> FALSE, staged |-> {}, placed |-> {}]

\* What fetchSingleCoinData can return for an instrument; NoMarket stands for
\* a coin whose request failed and which fetchMarketData left out.
NoMarket == [ok |-> FALSE, last |-> 0,
             candles1H |-> [len |-> 0, c |-> 0, ema15 |-> 0, ema60 |-> 0],
             entry3m |-> [signal |-> FALSE, action |-> "HOLD", sl |-> 0]]

\* accountData before the first fetch.
NoAccount == [totalEq |-> 0, availEq |-> 0, positions |-> [c \in Coins |-> NoPos]]

\* The locals of an invocation that is not running.
NoLocals ==
  [active |-> {}, queue |-> <<>>, orphans |-> {}, passA |-> {}, decs |-> <<>>,
   side |-> "", reduceOnly |-> FALSE, sz |-> 0, retries |-> 0, old |-> {},
   failed |-> FALSE, acted |-> FALSE, start |-> <<>>, at |-> 0]

\* The module-level state of server.ts when the process starts.
ServerStart ==
  /\ isRunning = FALSE
  /\ isProcessing = FALSE
  /\ lastAnalysisTime = 0
  /\ lastCleanupTime = 0
  /\ previousActiveInstIds = {}
  /\ marketData = [c \in Coins |-> NoMarket]
  /\ accountData = NoAccount
  /\ latestDecisions = [c \in {} |-> 0]
  /\ decisionHistory = <<>>
  /\ logs = {}
  /\ pc = [i \in Inv |-> "idle"]
  /\ loc = [i \in Inv |-> NoLocals]
  /\ runs = 0
  /\ skipped = 0
  /\ sweepCancels = {}
  /\ lastSweep = NoSweep
  /\ lastExec = NoExec

OrchIdle ==
  /\ ServerStart
  /\ loop = "server"
  /\ isSimulation = TRUE
  /\ now = 0
  /\ exPos = [c \in Coins |-> Flat]
  /\ exAlgos = {}
  /\ nextId = 1

\* --------------------------------------- specification of one engine run

\* Bounds of the engine inputs.
EngEquity == 100000

EngEntry == 10000

EngHeld == 2000

\* A held size that is not a whole number of contracts, and a held size
\* below one contract.
EngOddHeld == 150

EngDust == 50

EngCoins == DOMAIN COIN_CONFIG

EngPrices == {EngEntry - 80, EngEntry - 60, EngEntry - 40, EngEntry,
              EngEntry + 40, EngEntry + 60, EngEntry + 80}

EngAvail == {0, 20, EngEquity \div 20, EngEquity}

EngTrends ==
  { [len |-> n, c |-> c, ema15 |-> e15, ema60 |-> EngEntry] :
      n \in {99, 100}, c \in {EngEntry - 100, EngEntry + 100},
      e15 \in {0, EngEntry - 50, EngEntry + 50} }

EngEntries ==
  { [signal |-> FALSE, action |-> "HOLD", sl |-> 0],
    [signal |-> TRUE,  action |-> "BUY",  sl |-> EngEntry - 50],
    [signal |-> TRUE,  action |-> "SELL", sl |-> EngEntry + 50] }

EngPositions(cfg, last) ==
  {NoPos} \cup
  { MkPosition(cfg, side, EngHeld, EngEntry, last, sl, 0) :
      side \in {"long", "short"}, sl \in {0, EngEntry} } \cup
  { MkPosition(cfg, side, held, EngEntry, last, 0, 0) :
      side \in {"long", "short"}, held \in {EngOddHeld, EngDust, EngDust - 10} }

StageLog(coin, tags) == [time |-> 1, type |-> "TRADE", coin |-> coin, stages |-> tags]

EngLogs(coin) == { {}, {StageLog(coin, {"s1"})} }

EngLlm == { [ok |-> FALSE, mentions |-> {}],
            [ok |-> TRUE,  mentions |-> {}],
            [ok |-> TRUE,  mentions |-> {"s2"}] }

\* The allocation example of the documentation: equity 1000 USDT, ETH at
\* 3000.00 (contract value 0.1, minimum size 0.01), a BUY entry signal under
\* an UP trend, no position; available equity around the required margin.
AllocEquity == 1000000

AllocPrice == 300000

AllocAvail == {99899, 99900, 100049, 100050, AllocEquity}

AllocInputs ==
  { [coin |-> "ETH",
     md   |-> [last |-> AllocPrice,
               candles1H |-> [len |-> 100, c |-> AllocPrice, ema15 |-> AllocPrice - 50,
                              ema60 |-> AllocPrice - 100],
               entry3m |-> [signal |-> TRUE, action |-> "BUY", sl |-> AllocPrice - 50]],
     acct |-> [totalEq |-> AllocEquity, availEq |-> av,
               positions |-> [c \in EngCoins |-> NoPos]],
     logs |-> {},
     llm  |-> llm] : av \in AllocAvail, llm \in EngLlm }

\* An account of EngEquity (100 USDT) with ETH near 3000.00: the long position
\* of 0.66 contracts that the 10% allocation opens at that price, seen at a
\* price AllocGain higher (net ROI about 6%), under an UP trend.
AllocGain == 1200

SmallHeld == 66

SmallInputs ==
  { [coin |-> "ETH",
     md   |-> [last |-> AllocPrice + AllocGain,
               candles1H |-> [len |-> 100, c |-> AllocPrice + AllocGain,
                              ema15 |-> AllocPrice, ema60 |-> AllocPrice - 100],
               entry3m |-> [signal |-> FALSE, action |-> "HOLD", sl |-> 0]],
     acct |-> [totalEq |-> EngEquity, availEq |-> EngEquity - p.margin,
               positions |-> [c \in EngCoins |-> IF c = "ETH" THEN p ELSE NoPos]],
     logs |-> lg,
     llm  |-> llm] :
       p \in { MkPosition(COIN_CONFIG["ETH"], "long", SmallHeld, AllocPrice,
                          AllocPrice + AllocGain, sl, 0) : sl \in {0, AllocPrice - 1500} },
       lg \in EngLogs("ETH"), llm \in EngLlm }

\* A position held in one-way mode (posSide 'net', pos > 0: bought), as the
\* exchange reports it for an account that was not in long/short mode when
\* the position was opened.
NetInputs ==
  { [coin |-> "ETH",
     md   |-> [last |-> last, candles1H |-> tr,
               entry3m |-> [signal |-> FALSE, action |-> "HOLD", sl |-> 0]],
     acct |-> [totalEq |-> EngEquity, availEq |-> av,
               positions |-> [c \in EngCoins |->
                                IF c = "ETH"
                                THEN MkPosition(COIN_CONFIG["ETH"], "net", EngHeld, EngEntry,
                                                last, 0, 0)
                                ELSE NoPos]],
     logs |-> {},
     llm  |-> llm] :
       last \in {EngEntry, EngEntry + 40, EngEntry + 80}, tr \in EngTrends,
       av \in EngAvail, llm \in EngLlm }

NoInput == [coin |-> "ETH", md |-> <<>>, acct |-> <<>>, logs |-> {}, llm |-> <<>>]

NoDecision ==
  [coin |-> "", action |-> "HOLD", size |-> 0, stop_loss |-> 0,
   hit |-> <<>>, tags |-> {}, isClose |-> FALSE, rationale |-> "", error |-> FALSE]

NoSeries == [h1 |-> <<>>, len |-> 0, fill |-> 0, rels |-> <<>>, last |-> 0, bare |-> FALSE]

NoOutput == [trend |-> "NEUTRAL", entry |-> NoSignal]

SignalIdle ==
  gIn = NoSeries /\ gOut = [tol |-> NoOutput, win |-> NoOutput] /\ gPhase = "idle"

EngineIdle == eIn = NoInput /\ eDec = NoDecision /\ eDecR = NoDecision /\ ePhase = "idle"

\* No UPDATE_TPSL decision yet.  Otherwise: its stop, the price of the latest
\* cycle, whether the price has not moved against the position from cycle to
\* cycle since, whether the exchange accepted the update, and whether it
\* followed an accepted update with the price never against the position.
NoUpdate == [stop |-> 0, last |-> 0, rising |-> FALSE, applied |-> FALSE, chained |-> FALSE]

\* The price went from a to b in the favour of the side, or stayed.
Favourable(side, a, b) == IF side = "long" THEN b >= a ELSE b <= a

StagesIdle ==
  /\ sVersion = "fast" /\ sPos = NoPos /\ sLast = 0 /\ sLogs = {}
  /\ sCycle = 0 /\ sDec = NoDecision /\ sSnapSL = 0
  /\ sFired = [t \in StageTags |-> 0]
  /\ sFilled = {}
  /\ sUpd = NoUpdate

InitEngine ==
  /\ SignalIdle
  /\ StagesIdle
  /\ OrchIdle
  /\ \/ eIn \in AllocInputs
     \/ eIn \in SmallInputs
     \/ eIn \in NetInputs
     \/ \E coin \in EngCoins, last \in EngPrices, tr \in EngTrends, en \in EngEntries,
           av \in EngAvail, llm \in EngLlm :
          \E p \in EngPositions(COIN_CONFIG[coin], last), lg \in EngLogs(coin) :
            eIn = [coin |-> coin,
                   md   |-> [last |-> last, candles1H |-> tr, entry3m |-> en],
                   acct |-> [totalEq |-> EngEquity, availEq |-> av,
                             positions |-> [c \in EngCoins |-> IF c = coin THEN p ELSE NoPos]],
                   logs |-> lg,
                   llm  |-> llm]
  /\ eDec = NoDecision
  /\ eDecR = NoDecision
  /\ ePhase = "in"

\* One call of analyzeCoin, in each version of the engine.
Analyze ==
  /\ ePhase = "in"
  /\ eDec' = analyzeCoin(eIn.coin, eIn.md, eIn.acct, eIn.logs, eIn.llm)
  /\ eDecR' = analyzeCoinRatio(eIn.coin, eIn.md, eIn.acct, eIn.llm)
  /\ ePhase' = "out"
  /\ UNCHANGED <<eIn, signalVars, stageVars, orchVars>>

NextEngine == Analyze

SpecEngine == InitEngine /\ [][NextEngine]_vars

\* ------------------------------- specification of the two detectors
\* analyze1HTrend and analyze3mEntry as analyzeCoin calls them, on series
\* drawn from bounded sets.  A 1H series is given by its length and its latest
\* candle.  A 3m series is len candles: SuffixLen drawn candles at its end,
\* after a run of equal candles.  Every candle has ema60 = SigBase and
\* ema15 = SigBase + rel (rel < 0: death zone, rel > 0: gold zone); lows and
\* highs differ from candle to candle so that the extreme of a zone depends on
\* where the zone lies; the close of the latest candle is the current price.

SigBase == 1000

SuffixLen == 7

SigSpread == 20

SigRels == {0 - 1, 0, 1}

\* A 1H series of each outcome of analyze1HTrend.
SigTrendCases ==
  { [len |-> 100, c |-> SigBase + 1, ema15 |-> SigBase + 1, ema60 |-> SigBase],
    [len |-> 100, c |-> SigBase - 1, ema15 |-> SigBase - 1, ema60 |-> SigBase],
    [len |-> 99,  c |-> SigBase + 1, ema15 |-> SigBase + 1, ema60 |-> SigBase] }

\* Every relation of the latest 1H candle to its averages, ema15 = 0 standing
\* for a candle without averages.
SigTrends ==
  { [len |-> n, c |-> SigBase + c, ema15 |-> e15, ema60 |-> SigBase] :
      n \in {99, 100}, c \in SigRels,
      e15 \in {0, SigBase - 1, SigBase, SigBase + 1} }

\* A fresh golden cross and a fresh death cross at the latest candle.
SigFreshCrosses ==
  { [j \in 1..SuffixLen |-> IF j < SuffixLen THEN 0 - r ELSE r] : r \in {0 - 1, 1} }

\* bare: the latest 3m candle carries no averages.
SigSeries ==
  { [h1 |-> h, len |-> n, fill |-> 0 - 1, rels |-> x, last |-> SigBase + SigSpread,
     bare |-> b] :
      h \in SigTrends, n \in {0, 99, 100}, x \in SigFreshCrosses, b \in BOOLEAN }
  \cup
  { [h1 |-> h, len |-> n, fill |-> f, rels |-> x, last |-> SigBase + p, bare |-> FALSE] :
      h \in SigTrendCases, n \in {99, 100}, f \in {0 - 1, 1},
      x \in [1..SuffixLen -> SigRels], p \in {0 - SigSpread, SigSpread} }

\* The 3m candles of an input, as enrichCandlesWithEMA hands them over.
candles3m(in) ==
  [i \in 1..in.len |->
     LET j == i - (in.len - SuffixLen)
     IN [ema15 |-> IF in.bare /\ i = in.len THEN 0
                   ELSE SigBase + (IF j >= 1 THEN in.rels[j] ELSE in.fill),
         ema60 |-> IF in.bare /\ i = in.len THEN 0 ELSE SigBase,
         l     |-> SigBase - 10 - (IF j >= 1 THEN j ELSE 0),
         h     |-> SigBase + 10 + (IF j >= 1 THEN j ELSE 0),
         c     |-> IF i = in.len THEN in.last ELSE SigBase]]

InitSignal ==
  /\ eIn = NoInput /\ eDec = NoDecision /\ eDecR = NoDecision /\ ePhase = "idle"
  /\ StagesIdle
  /\ OrchIdle
  /\ gIn \in SigSeries
  /\ gOut = [tol |-> NoOutput, win |-> NoOutput]
  /\ gPhase = "in"

\* The two calls of analyzeCoin, in each version of aiService:
\*   const trend1H = analyze1HTrend(candles1H);
\*   const entry3m = analyze3mEntry(candles3m, trend1H.direction);
Detect ==
  /\ gPhase = "in"
  /\ \E tt \in {analyze1HTrend(gIn.h1)}, tw \in {analyze1HTrendCross(gIn.h1)} :
       gOut' = [tol |-> [trend |-> tt, entry |-> analyze3mEntry(candles3m(gIn), tt)],
                win |-> [trend |-> tw, entry |-> analyze3mEntryWindow(candles3m(gIn), tw)]]
  /\ gPhase' = "out"
  /\ UNCHANGED <<gIn, eIn, eDec, eDecR, ePhase, stageVars, orchVars>>

NextSignal == Detect

SpecSignal == InitSignal /\ [][NextSignal]_vars

\* --------------------------- specification of one position's lifecycle
\* One instrument with an open position, over successive analysis cycles of
\* the runtime loop.  Three builds of the program are covered:
\*   "fast"   the log-backtracking engine under the loop that writes the
\*            decision's reasoning to the TRADE log before it dispatches;
\*   "server" the log-backtracking engine under the loop of server.ts, whose
\*            TRADE log holds the action, the size and the exchange's answer;
\*   "ratio"  the size-ratio engine under the loop of server.ts.

Versions == {"fast", "server", "ratio"}

StageCoin == "ETH"

\* Bounds of the lifecycle.
MaxCycles == 4

MaxFired == 2

StageCash == 100000

StageEntry == 10000

StageHeld == 2000

\* Price offsets from the entry price, in the position's favour.
StageOffsets == {0 - 60, 0, 40, 55, 75, 95}

StagePrice(side, avgPx, off) == IF side = "long" THEN avgPx + off ELSE avgPx - off

StageTrends ==
  { [len |-> 100, c |-> StageEntry + 100, ema15 |-> StageEntry + 50, ema60 |-> StageEntry],
    [len |-> 100, c |-> StageEntry - 100, ema15 |-> StageEntry - 50, ema60 |-> StageEntry] }

\* The account snapshot fetchAccountData returns for the lifecycle's position.
StageAccount ==
  LET cfg == COIN_CONFIG[StageCoin]
      p   == IF sPos.pos > 0
             THEN MkPosition(cfg, sPos.posSide, sPos.pos, sPos.avgPx, sLast,
                             sPos.slTriggerPx, sPos.cTime)
             ELSE NoPos
  IN [totalEq   |-> StageCash + p.upl,
      availEq   |-> StageCash - p.margin,
      positions |-> [c \in Coins |-> IF c = StageCoin THEN p ELSE NoPos]]

\* The stage tags in the TRADE log the loop writes for a dispatched decision.
\* The fast loop logs "信号触发: <action> | 理由: <reasoning>" for an order and
\* "策略调整: ..." for a stop update; server.ts logs "执行: <action> <size> 张".
TradeLogTags(version, d) ==
  IF version = "fast" /\ d.action # "UPDATE_TPSL" THEN d.tags ELSE {}

\* Whether the loop writes its TRADE log: the fast loop before dispatching any
\* decision but HOLD, server.ts after executeOrder returned.
TradeLogged(version, d, accepted) ==
  IF version = "fast" THEN d.action # "HOLD"
  ELSE d.action \notin {"HOLD", "UPDATE_TPSL"} /\ accepted

\* The position after the exchange accepted the dispatch of decision d:
\* updatePositionTPSL replaces the stop, executeOrder closes the position or
\* reduces it by the decision's size.
Dispatched(pos, d) ==
  IF d.action = "UPDATE_TPSL"
  THEN IF d.stop_loss > 0 THEN [pos EXCEPT !.slTriggerPx = d.stop_loss] ELSE pos
  ELSE IF d.action = "CLOSE" THEN [pos EXCEPT !.pos = 0]
  ELSE IF d.action \in {"BUY", "SELL"} /\ d.isClose /\ d.size > 0
  THEN [pos EXCEPT !.pos = IF d.size >= pos.pos THEN 0 ELSE pos.pos - d.size]
  ELSE pos

InitStages ==
  /\ EngineIdle
  /\ SignalIdle
  /\ OrchIdle
  /\ sVersion \in Versions
  /\ \E side \in {"long", "short"}, avg \in {StageEntry, StageEntry + 5},
        held \in {StageHeld, StageHeld \div 5} :
       /\ sPos = [posSide |-> side, pos |-> held, avgPx |-> avg, upl |-> 0, margin |-> 0,
                  leverage |-> DEFAULT_LEVERAGE, cTime |-> 0,
                  slTriggerPx |-> StagePrice(side, avg, 0 - 50)]
       /\ sLast = avg
  /\ sLogs = {}
  /\ sCycle = 0
  /\ sDec = NoDecision
  /\ sSnapSL = 0
  /\ sFired = [t \in StageTags |-> 0]
  /\ sFilled = {}
  /\ sUpd = NoUpdate

\* The extremes the stop scan of services/aiService.ts may find.
StageZones(side, avgPx) ==
  {0, StagePrice(side, avgPx, 0 - 30), StagePrice(side, avgPx, 10),
   StagePrice(side, avgPx, 30)}

\* The market moves; a price at or beyond the stop triggers it and the
\* exchange closes the position.
PriceMove ==
  /\ sPos.pos > 0
  /\ \E off \in StageOffsets :
       LET px  == StagePrice(sPos.posSide, sPos.avgPx, off)
           hit == /\ sPos.slTriggerPx > 0
                  /\ IF sPos.posSide = "long" THEN px <= sPos.slTriggerPx
                                              ELSE px >= sPos.slTriggerPx
       IN /\ px # sLast
          /\ sLast' = px
          /\ sPos' = IF hit THEN [sPos EXCEPT !.pos = 0] ELSE sPos
  /\ UNCHANGED <<engineVars, orchVars, sVersion, sLogs, sCycle, sDec, sSnapSL, sFired,
                 sFilled, sUpd>>

\* One analysis cycle: the engine decides on the snapshot, the loop logs and
\* dispatches the decision, the exchange accepts or rejects the dispatch.
\* max bounds the number of cycles; track says whether the history sUpd is
\* kept.  vol and zone are read by the engine of services/aiService.ts only:
\* whether the latest 3m candle spans 10% of its open, and the extreme of the
\* most recent completed opposite zone of the 3m series (0: none found).
CycleUpTo(max, track) ==
  /\ sPos.pos > 0
  /\ sCycle < max
  /\ \E tr \in StageTrends, llm \in EngLlm, accepted \in BOOLEAN,
        vol \in IF sVersion = "levels" THEN BOOLEAN ELSE {FALSE},
        zone \in IF sVersion = "levels" THEN StageZones(sPos.posSide, sPos.avgPx) ELSE {0} :
       LET md   == [last |-> sLast, candles1H |-> tr,
                    entry3m |-> [signal |-> FALSE, action |-> "HOLD", sl |-> 0],
                    vol |-> vol, zone |-> zone]
       IN \E acct \in {StageAccount} :
       \E d \in {IF sVersion = "ratio"
                 THEN analyzeCoinRatio(StageCoin, md, acct, llm)
                 ELSE IF sVersion = "levels"
                 THEN analyzeCoinLevels(StageCoin, md, acct, llm)
                 ELSE analyzeCoin(StageCoin, md, acct, sLogs, llm)} :
       LET part == d.action \in {"BUY", "SELL"} /\ d.isClose
       IN /\ sDec' = d
          /\ sSnapSL' = acct.positions[StageCoin].slTriggerPx
          /\ sFired' = [t \in StageTags |->
                          IF part /\ (\E i \in 1..Len(d.hit) : d.hit[i] = t)
                          THEN Min(sFired[t] + 1, MaxFired) ELSE sFired[t]]
          /\ sLogs' = IF TradeLogged(sVersion, d, accepted)
                      THEN sLogs \cup {StageLog(StageCoin, TradeLogTags(sVersion, d))}
                      ELSE sLogs
          /\ sFilled' = IF part /\ accepted /\ d.size > 0
                        THEN sFilled \cup {d.hit[k] : k \in 1..Len(d.hit)}
                        ELSE sFilled
          /\ sPos' = IF accepted THEN Dispatched(sPos, d) ELSE sPos
          /\ sUpd' = IF ~track THEN sUpd
                      ELSE IF d.action = "UPDATE_TPSL" /\ d.stop_loss > 0
                      THEN [stop |-> d.stop_loss, last |-> sLast, rising |-> TRUE,
                            applied |-> accepted,
                            chained |-> /\ sUpd.stop > 0 /\ sUpd.rising /\ sUpd.applied
                                        /\ Favourable(sPos.posSide, sUpd.last, sLast)]
                      ELSE IF sUpd.stop > 0
                      THEN [sUpd EXCEPT !.last = sLast,
                                        !.rising = @ /\ Favourable(sPos.posSide, sUpd.last, sLast)]
                      ELSE sUpd
  /\ sCycle' = sCycle + 1
  /\ UNCHANGED <<engineVars, orchVars, sVersion, sLast>>

Cycle == CycleUpTo(MaxCycles, FALSE)

NextStages == PriceMove \/ Cycle

SpecStages == InitStages /\ [][NextStages]_vars

\* ------------------------------ specification of the stop ratchet
\* The lifecycle of one position of StageHeld contracts entered at StageEntry,
\* over one cycle more, under each engine (the two above and the one of
\* services/aiService.ts), with the history of the stop updates.
RatchetCycles == 5

InitRatchet ==
  /\ EngineIdle
  /\ SignalIdle
  /\ OrchIdle
  /\ sVersion \in Versions \cup {"levels"}
  /\ \E side \in {"long", "short"} :
       sPos = [posSide |-> side, pos |-> StageHeld, avgPx |-> StageEntry, upl |-> 0,
               margin |-> 0, leverage |-> DEFAULT_LEVERAGE, cTime |-> 0,
               slTriggerPx |-> StagePrice(side, StageEntry, 0 - 50)]
  /\ sLast = StageEntry
  /\ sLogs = {}
  /\ sCycle = 0
  /\ sDec = NoDecision
  /\ sSnapSL = 0
  /\ sFired = [t \in StageTags |-> 0]
  /\ sFilled = {}
  /\ sUpd = NoUpdate

CycleRatchet == CycleUpTo(RatchetCycles, TRUE)

NextRatchet == PriceMove \/ CycleRatchet

SpecRatchet == InitRatchet /\ [][NextRatchet]_vars

\* ---------------------------------- the runtime loop and the exchange

\* Bounds of the runtime model.
MaxRuns == 2

MaxSkipped == 1

MaxAdvances == 1

StartNow == 1000

OrchEquity == 100000

\* balance.availEq of the live account: margin held outside the instruments
\* the model follows leaves 15% of the equity available.
OrchAvail == 15000

\* const CLEANUP_INTERVAL = 60 * 1000 (server.ts), 15 * 1000 (fast loop); seconds.
CLEANUP_INTERVAL == 60

CLEANUP_INTERVAL_FAST == 15

CleanupInterval == IF loop = "server" THEN CLEANUP_INTERVAL ELSE CLEANUP_INTERVAL_FAST

\* let intervalMs = 180000; if (hasActivePos) intervalMs = 60000  (15000 / 10000)
intervalMs(hasActivePos) ==
  IF loop = "fast" THEN (IF hasActivePos THEN 10 ELSE 15)
                   ELSE (IF hasActivePos THEN 60 ELSE 180)

\* generateMockAccountData()
MOCK_EQUITY == 1000000

MockAccount ==
  [totalEq |-> MOCK_EQUITY, availEq |-> MOCK_EQUITY, positions |-> [c \in Coins |-> NoPos]]

Market(last, up15, sig) ==
  [ok |-> TRUE, last |-> last,
   candles1H |-> [len |-> 100, c |-> IF up15 THEN EngEntry + 100 ELSE EngEntry - 100,
                  ema15 |-> IF up15 THEN EngEntry + 50 ELSE EngEntry - 50,
                  ema60 |-> EngEntry],
   entry3m |-> IF sig THEN [signal |-> TRUE, action |-> "BUY", sl |-> EngEntry - 50]
                      ELSE [signal |-> FALSE, action |-> "HOLD", sl |-> 0]]

\* The price rise, in ticks, that leaves the one-way position between 2% and
\* 5% net ROI.
NetGain == 30

MarketCases ==
  { Market(EngEntry, TRUE, FALSE), Market(EngEntry, TRUE, TRUE),
    Market(EngEntry + 40, TRUE, FALSE), Market(EngEntry, FALSE, FALSE),
    Market(EngEntry + NetGain, FALSE, FALSE) }

\* The snapshots fetchMarketData can return: one of the cases for ETH with a
\* quiet SOL, an entry signal on both coins (drawn in the last cycle of a
\* run only), or a snapshot that misses one coin or both.  The one-way
\* position is followed under a rising price and a falling trend, which no
\* other run draws.
MarketSnapshots ==
  { md \in [Coins -> MarketCases \cup {NoMarket}] :
      /\ md["SOL"] # Market(EngEntry + NetGain, FALSE, FALSE)
      /\ md["ETH"] = Market(EngEntry + NetGain, FALSE, FALSE) <=>
            (exPos["ETH"].side = "net" /\ md["ETH"].ok)
      /\ exPos["ETH"].side = "net" => md["SOL"] # Market(EngEntry, TRUE, TRUE)
      /\ \/ md["SOL"] \in {NoMarket, Market(EngEntry, TRUE, FALSE)}
         \/ /\ md["SOL"] = Market(EngEntry, TRUE, TRUE) /\ md["ETH"] = md["SOL"]
            /\ runs = MaxRuns
      /\ ~md["SOL"].ok => md["ETH"] \in {NoMarket, Market(EngEntry, TRUE, FALSE)} }

\* The coins of a set, in the order of Object.keys(COIN_CONFIG).
SeqOf(S) == SelectSeq(CoinOrder, LAMBDA c : c \in S)

AlgosOf(c) == {o \in exAlgos : o.coin = c}

\* The stops fetchAccountData can attach to the position of coin c: the
\* trigger price of a pending stop order, none when the pending-order query
\* fails or finds no stop.
SnapshotStops(c) == {0} \cup {o.px : o \in {a \in AlgosOf(c) : a.kind = "sl"}}

\* accountData as fetchAccountData builds it from the exchange's answers.
Snapshot(stops, positionsOk) ==
  LET held(c) == positionsOk /\ exPos[c].pos > 0
      mark(c) == IF marketData[c].ok THEN marketData[c].last ELSE exPos[c].avgPx
      posOf(c) == IF held(c)
                  THEN MkPosition(COIN_CONFIG[c], exPos[c].side, exPos[c].pos,
                                  exPos[c].avgPx, mark(c), stops[c], exPos[c].cTime)
                  ELSE NoPos
  IN [totalEq   |-> OrchEquity,
      availEq   |-> OrchAvail,
      positions |-> [c \in Coins |-> posOf(c)]]

\* What the claims about an aborted cycle compare.
EngineState == <<lastAnalysisTime, lastCleanupTime, latestDecisions, decisionHistory>>

Goto(i, label) == pc' = [pc EXCEPT ![i] = label]

\* if (isProcessing) return;
Busy == isProcessing

\* runTradingLoop is invoked by the timer and passes the lock check; the
\* legacy loop has no lock to take.
Tick(i) ==
  /\ pc[i] = "idle"
  /\ \A j \in Inv : j < i => pc[j] # "idle"
  /\ ~Busy
  /\ runs < MaxRuns
  /\ isProcessing' = (loop # "legacy")
  /\ runs' = runs + 1
  /\ loc' = [loc EXCEPT ![i] = [NoLocals EXCEPT !.start = EngineState]]
  /\ Goto(i, "fetchMarket")
  /\ UNCHANGED <<engineVars, stageVars, loop, isSimulation, now, isRunning,
                 lastAnalysisTime, lastCleanupTime, previousActiveInstIds, marketData,
                 accountData, latestDecisions, decisionHistory, logs, exchangeVars,
                 skipped, historyVars>>

\* runTradingLoop is invoked while an earlier invocation holds the lock.
TickBusy(i) ==
  /\ pc[i] = "idle"
  /\ \A j \in Inv : j < i => pc[j] # "idle"
  /\ Busy
  /\ skipped < MaxSkipped
  /\ skipped' = skipped + 1
  /\ UNCHANGED <<engineVars, stageVars, loop, isSimulation, now, serverVars,
                 exchangeVars, pc, loc, runs, historyVars>>

\* marketData = await okxService.fetchMarketData(config): a coin whose request
\* fails is left out, the call itself never throws.
FetchMarket(i) ==
  /\ pc[i] = "fetchMarket"
  /\ \E md \in MarketSnapshots :
       /\ isSimulation => \A c \in Coins : md[c].ok
       /\ marketData' = md
       /\ loc' = [loc EXCEPT ![i].failed = \A c \in Coins : ~md[c].ok]
  /\ Goto(i, "fetchAccount")
  /\ UNCHANGED <<engineVars, stageVars, loop, isSimulation, now, isRunning, isProcessing,
                 lastAnalysisTime, lastCleanupTime, previousActiveInstIds,
                 accountData, latestDecisions, decisionHistory, logs, exchangeVars,
                 runs, skipped, historyVars>>

\* accountData = await okxService.fetchAccountData(config).  It throws when a
\* request fails on the network or the balance answer carries an error code;
\* an error answer to the positions request is read as "no positions".
FetchAccount(i) ==
  /\ pc[i] = "fetchAccount"
  /\ \/ /\ isSimulation
        /\ accountData' = MockAccount
        /\ Goto(i, "cleanup")
        /\ UNCHANGED loc
     \/ /\ ~isSimulation
        /\ \E stops \in [Coins -> UNION {SnapshotStops(c) : c \in Coins}] :
             /\ \A c \in Coins : stops[c] \in SnapshotStops(c)
             /\ accountData' = Snapshot(stops, TRUE)
        /\ Goto(i, "cleanup")
        /\ UNCHANGED loc
     \/ /\ ~isSimulation
        /\ accountData' = Snapshot([c \in Coins |-> 0], FALSE)
        /\ loc' = [loc EXCEPT ![i].failed = TRUE]
        /\ Goto(i, "cleanup")
     \/ /\ ~isSimulation
        /\ loc' = [loc EXCEPT ![i].failed = TRUE]
        /\ Goto(i, "finally")
        /\ UNCHANGED accountData
  /\ UNCHANGED <<engineVars, stageVars, loop, isSimulation, now, isRunning, isProcessing,
                 lastAnalysisTime, lastCleanupTime, previousActiveInstIds, marketData,
                 latestDecisions, decisionHistory, logs, exchangeVars,
                 runs, skipped, historyVars>>

\* if (accountData && !config.isSimulation): currentActiveInstIds, and the
\* instruments the trigger-based cleanup of server.ts visits.
CleanupStart(i) ==
  /\ pc[i] = "cleanup"
  /\ IF isSimulation \/ loop = "legacy"
     THEN Goto(i, "gate") /\ UNCHANGED loc
     ELSE LET active == {c \in Coins : accountData.positions[c].pos > 0}
              gone   == IF loop = "server" THEN previousActiveInstIds \ active ELSE {}
          IN /\ loc' = [loc EXCEPT ![i].active = active, ![i].queue = SeqOf(gone)]
             /\ Goto(i, "sweepA")
  /\ UNCHANGED <<engineVars, stageVars, loop, isSimulation, now, serverVars,
                 exchangeVars, runs, skipped, historyVars>>

\* A filter that keeps every pending order.
AnyOrder(o) == TRUE

\* algos.filter(o => o.reduceOnly === 'true')
IsOrphan(o) == o.ro

\* checkAndCancelOrphanedAlgos up to its cancel request: fetchAlgoOrders
\* (an empty list when the request fails) and the reduce-only filter.
SweepQuery(i) ==
  /\ pc[i] \in {"sweepA", "sweepB"}
  /\ loc[i].queue # <<>>
  /\ LET c == Head(loc[i].queue)
         seen == [coin |-> c, done |-> TRUE, flat |-> exPos[c].pos = 0, queried |-> TRUE,
                  accepted |-> FALSE,
                  pendingRO |-> {o \in AlgosOf(c) : o.ro},
                  pendingOther |-> {o \in AlgosOf(c) : ~o.ro},
                  cancelled |-> {}]
     IN \E queryOk \in BOOLEAN :
          LET algos   == IF queryOk THEN AlgosOf(c) ELSE {}
              orphans == {o \in algos : IsOrphan(o)}
          IN /\ lastSweep' = [seen EXCEPT !.queried = queryOk, !.done = orphans = {}]
             /\ IF orphans # {}
                THEN /\ loc' = [loc EXCEPT ![i].orphans = orphans, ![i].acted = TRUE,
                                           ![i].passA = IF pc[i] = "sweepA"
                                                        THEN @ \cup {c} ELSE @]
                     /\ Goto(i, IF pc[i] = "sweepA" THEN "cancelA" ELSE "cancelB")
                ELSE /\ loc' = [loc EXCEPT ![i].queue = Tail(@), ![i].acted = TRUE,
                                           ![i].passA = IF pc[i] = "sweepA"
                                                        THEN @ \cup {c} ELSE @]
                     /\ UNCHANGED pc
  /\ UNCHANGED <<engineVars, stageVars, loop, isSimulation, now, serverVars,
                 exchangeVars, runs, skipped, sweepCancels, lastExec>>

\* An exchange that answers a cancel request with success and cancels
\* nothing.
CancelIgnored(algos, gone, accepted) == algos

\* The pending orders after a cancel-algos request for the orders gone.
AfterCancel(algos, gone, accepted) == IF accepted THEN algos \ gone ELSE algos

\* The cancel-algos request of checkAndCancelOrphanedAlgos and its answer.
SweepCancel(i) ==
  /\ pc[i] \in {"cancelA", "cancelB"}
  /\ LET c == Head(loc[i].queue)
         gone == loc[i].orphans \cap exAlgos
     IN \E accepted \in BOOLEAN :
          /\ exAlgos' = AfterCancel(exAlgos, gone, accepted)
          /\ lastSweep' = [lastSweep EXCEPT !.accepted = accepted, !.done = TRUE,
                                            !.cancelled = IF accepted THEN gone ELSE {}]
          /\ sweepCancels' = IF accepted /\ gone # {}
                             THEN sweepCancels \cup {[coin |-> c, held |-> exPos[c].pos > 0]}
                             ELSE sweepCancels
  /\ loc' = [loc EXCEPT ![i].queue = Tail(@), ![i].orphans = {}, ![i].acted = TRUE]
  /\ Goto(i, IF pc[i] = "cancelA" THEN "sweepA" ELSE "sweepB")
  /\ UNCHANGED <<engineVars, stageVars, loop, isSimulation, now, serverVars,
                 exPos, nextId, runs, skipped, lastExec>>

\* A periodic pass that waits for the engine to be enabled.
SweepDueWhenRunning == isRunning /\ now - lastCleanupTime > CleanupInterval

\* if (Date.now() - lastCleanupTime > CLEANUP_INTERVAL)
SweepDue == now - lastCleanupTime > CleanupInterval

\* previousActiveInstIds = currentActiveInstIds (server.ts), then the periodic
\* pass: if (Date.now() - lastCleanupTime > CLEANUP_INTERVAL).
CleanupPeriodic(i) ==
  /\ pc[i] = "sweepA"
  /\ loc[i].queue = <<>>
  /\ previousActiveInstIds' = IF loop = "server" THEN loc[i].active
                              ELSE previousActiveInstIds
  /\ IF SweepDue
     THEN /\ lastCleanupTime' = now
          /\ loc' = [loc EXCEPT ![i].queue = SeqOf(Coins \ loc[i].active)]
          /\ Goto(i, "sweepB")
     ELSE /\ Goto(i, "gate")
          /\ UNCHANGED <<lastCleanupTime, loc>>
  /\ UNCHANGED <<engineVars, stageVars, loop, isSimulation, now, isRunning, isProcessing,
                 lastAnalysisTime, marketData, accountData, latestDecisions,
                 decisionHistory, logs, exchangeVars, runs, skipped, historyVars>>

CleanupDone(i) ==
  /\ pc[i] = "sweepB"
  /\ loc[i].queue = <<>>
  /\ Goto(i, "gate")
  /\ UNCHANGED <<engineVars, stageVars, loop, isSimulation, now, serverVars,
                 exchangeVars, loc, runs, skipped, historyVars>>

\* if (!isRunning) return; the scan interval; if (now - lastAnalysisTime <
\* intervalMs) return.
\* The loop without the test of the enable flag.
AlwaysEnabled == TRUE

\* if (!isRunning) return;
EngineEnabled == isRunning

Gate(i) ==
  /\ pc[i] = "gate"
  /\ LET hasActivePos == \E c \in Coins : accountData.positions[c].pos > 0
         due == EngineEnabled /\ ~(now - lastAnalysisTime < intervalMs(hasActivePos))
     IN /\ Goto(i, IF due THEN "decide" ELSE "finally")
        /\ loc' = [loc EXCEPT ![i].at = now]
        /\ lastAnalysisTime' = IF due /\ loop # "legacy" THEN now ELSE lastAnalysisTime
  /\ UNCHANGED <<engineVars, stageVars, loop, isSimulation, now, isRunning, isProcessing,
                 lastCleanupTime, previousActiveInstIds, marketData, accountData,
                 latestDecisions, decisionHistory, logs, exchangeVars, runs, skipped,
                 historyVars>>

\* One entry of latestDecisions and decisionHistory: the decision's coin and
\* action.
HistoryEntry(d) == [coin |-> d.coin, action |-> d.action]

\* aiService.getTradingDecision: one analyzeCoin per configured coin that has
\* market data; the legacy loop calls the engine that takes no logs.
Decide(i) ==
  /\ pc[i] = "decide"
  /\ lastAnalysisTime' = IF loop = "legacy" THEN loc[i].at ELSE lastAnalysisTime
  /\ \E ok \in BOOLEAN :
       LET llm(c) == [ok |-> ok, mentions |-> {}]
           dec(c) == IF loop = "legacy"
                     THEN analyzeCoinRatio(c, marketData[c], accountData, llm(c))
                     ELSE analyzeCoin(c, marketData[c], accountData, logs, llm(c))
           coins  == SelectSeq(CoinOrder, LAMBDA c : marketData[c].ok)
       IN /\ coins = <<>> => ok
          /\ loc' = [loc EXCEPT ![i].decs = [k \in 1..Len(coins) |-> dec(coins[k])],
                                ![i].acted = TRUE]
  /\ Goto(i, "process")
  /\ UNCHANGED <<engineVars, stageVars, loop, isSimulation, now, isRunning, isProcessing,
                 lastCleanupTime, previousActiveInstIds, marketData, accountData,
                 latestDecisions, decisionHistory, logs, exchangeVars, runs, skipped,
                 historyVars>>

\* The log line the loop writes for decision d before dispatching it (fast
\* loop only).
LoggedBefore(d) ==
  IF loop = "fast" /\ d.action # "HOLD"
  THEN {[time |-> now, type |-> "TRADE", coin |-> d.coin,
         stages |-> TradeLogTags("fast", d)]}
  ELSE {}

\* The TRADE line server.ts and the legacy loop write after executeOrder
\* returned: "执行: action size 张. 结果: msg".
LoggedAfter(c) ==
  IF loop = "fast" THEN {}
  ELSE {[time |-> now, type |-> "TRADE", coin |-> c, stages |-> {}]}

\* The head of the for (const decision of decisions) loop.
Process(i) ==
  /\ pc[i] = "process"
  /\ IF loc[i].decs = <<>>
     THEN /\ Goto(i, "finally")
          /\ UNCHANGED <<latestDecisions, decisionHistory, logs, loc>>
     ELSE LET d == Head(loc[i].decs)
              position == accountData.positions[d.coin]
              tpsl == /\ d.action = "UPDATE_TPSL"
                      /\ position.posSide # "none"
                      /\ d.stop_loss > 0
                      /\ loop # "fast" => position.posSide # "net"
          IN /\ latestDecisions' = [c \in DOMAIN latestDecisions \cup {d.coin} |->
                                      IF c = d.coin THEN HistoryEntry(d)
                                      ELSE latestDecisions[c]]
             /\ decisionHistory' = <<HistoryEntry(d)>> \o decisionHistory
             /\ logs' = logs \cup LoggedBefore(d)
             /\ IF tpsl THEN Goto(i, "tpsl") /\ UNCHANGED loc
                ELSE IF d.action \notin {"HOLD", "UPDATE_TPSL"}
                THEN Goto(i, "exec") /\ UNCHANGED loc
                ELSE /\ loc' = [loc EXCEPT ![i].decs = Tail(@)]
                     /\ UNCHANGED pc
  /\ UNCHANGED <<engineVars, stageVars, loop, isSimulation, now, isRunning, isProcessing,
                 lastAnalysisTime, lastCleanupTime, previousActiveInstIds, marketData,
                 accountData, exchangeVars, runs, skipped, historyVars>>

Order(id, c, kind, px) == [id |-> id, coin |-> c, ro |-> TRUE, kind |-> kind, px |-> px]

\* updatePositionTPSL going on to the cancel request after a rejected
\* placement.
TpslPlaceUnchecked(i) ==
  /\ pc[i] = "tpsl"
  /\ LET d == Head(loc[i].decs)
     IN IF isSimulation
        THEN /\ loc' = [loc EXCEPT ![i].decs = Tail(@)]
             /\ Goto(i, "process")
             /\ UNCHANGED <<exAlgos, nextId>>
        ELSE \E queryOk \in BOOLEAN, placed \in BOOLEAN :
               LET old == IF queryOk THEN {o \in AlgosOf(d.coin) : o.kind = "sl"} ELSE {}
               IN /\ loc' = [loc EXCEPT ![i].old = old]
                  /\ Goto(i, "tpslCancel")
                  /\ IF placed
                     THEN /\ exAlgos' = exAlgos \cup {Order(nextId, d.coin, "sl", d.stop_loss)}
                          /\ nextId' = nextId + 1
                     ELSE UNCHANGED <<exAlgos, nextId>>
  /\ UNCHANGED <<engineVars, stageVars, loop, isSimulation, now, serverVars,
                 exPos, runs, skipped, historyVars>>

\* updatePositionTPSL up to the placement of the new stop: the pending stops
\* it will cancel, then the order-algo request; a rejected placement throws.
TpslPlace(i) ==
  /\ pc[i] = "tpsl"
  /\ LET d == Head(loc[i].decs)
     IN IF isSimulation
        THEN /\ loc' = [loc EXCEPT ![i].decs = Tail(@)]
             /\ Goto(i, "process")
             /\ UNCHANGED <<exAlgos, nextId>>
        ELSE \E queryOk \in BOOLEAN, placed \in BOOLEAN :
               LET old == IF queryOk THEN {o \in AlgosOf(d.coin) : o.kind = "sl"} ELSE {}
               IN IF placed
                  THEN /\ exAlgos' = exAlgos \cup {Order(nextId, d.coin, "sl", d.stop_loss)}
                       /\ nextId' = nextId + 1
                       /\ loc' = [loc EXCEPT ![i].old = old]
                       /\ Goto(i, "tpslCancel")
                  ELSE /\ loc' = [loc EXCEPT ![i].decs = Tail(@)]
                       /\ Goto(i, "process")
                       /\ UNCHANGED <<exAlgos, nextId>>
  /\ UNCHANGED <<engineVars, stageVars, loop, isSimulation, now, serverVars,
                 exPos, runs, skipped, historyVars>>

\* The cancel-algos request of updatePositionTPSL; its answer is not read.
TpslCancel(i) ==
  /\ pc[i] = "tpslCancel"
  /\ \E cancelled \in BOOLEAN :
       exAlgos' = IF cancelled THEN exAlgos \ loc[i].old ELSE exAlgos
  /\ loc' = [loc EXCEPT ![i].decs = Tail(@), ![i].old = {}]
  /\ Goto(i, "process")
  /\ UNCHANGED <<engineVars, stageVars, loop, isSimulation, now, serverVars,
                 exPos, nextId, runs, skipped, historyVars>>

\* calculateGreedySize of placeAlgoStrategy: the share pct10/10 of the filled
\* size, at least MIN_SZ, at most what remains; sizes in units of 0.01.
GreedyFinal10(size, remaining, pct10, minU) ==
  IF remaining <= 0 THEN 0
  ELSE LET intended == size * pct10
           floored  == IF intended > minU * 10 THEN intended ELSE minU * 10
       IN IF floored > remaining * 10 THEN remaining * 10 ELSE floored

\* s1..s4 of placeAlgoStrategy.
GreedySizes(size, minU) ==
  LET f1 == GreedyFinal10(size, size, 3, minU)
      r1 == RoundDiv(size * 10 - f1, 10)
      f2 == GreedyFinal10(size, r1, 3, minU)
      r2 == RoundDiv(r1 * 10 - f2, 10)
      f3 == GreedyFinal10(size, r2, 2, minU)
      r3 == RoundDiv(r2 * 10 - f3, 10)
  IN [tp1 |-> RoundDiv(f1, 10), tp2 |-> RoundDiv(f2, 10), tp3 |-> RoundDiv(f3, 10),
      trail |-> r3]

KindIndex(k) == IF k = "tp1" THEN 0 ELSE IF k = "tp2" THEN 1 ELSE IF k = "tp3" THEN 2 ELSE 3

\* The placements placeAlgoStrategy pushes: if (s >= MIN_SZ).
Staged(size, minU) ==
  {k \in {"tp1", "tp2", "tp3", "trail"} : GreedySizes(size, minU)[k] >= minU}

\* getTpPrice(roi) for roi = 0.05, 0.08, 0.12 at DEFAULT_LEVERAGE, toFixed(2);
\* the trailing order activates at the third price.
TpPrice(side, entry, kind) ==
  LET bp == IF kind = "tp1" THEN 5 ELSE IF kind = "tp2" THEN 8 ELSE 12
      d  == 100 * DEFAULT_LEVERAGE
  IN IF side = "long" THEN RoundDiv(entry * (d + bp), d)
                      ELSE RoundDiv(entry * (d - bp), d)

\* What can come of the requests of placeAlgoStrategy, whose answers are not
\* read and whose errors are swallowed: all placed, the trailing one lost,
\* or all lost.
PlacementOutcomes(staged) == {staged, staged \ {"trail"}, {}}

\* A loop that gives up the rest of the cycle after a dispatch.
AbortDecisions(i, l) == [l EXCEPT ![i].decs = <<>>]

NextDecision(i, l) == [l EXCEPT ![i].decs = Tail(@)]

\* placeOrderWithRetry(order.size, 2): the retries an order starts with.
PLACE_RETRIES == 2

\* A retry that sends the size it was refused with.
SameSize(sz) == sz

\* (parseFloat(currentSz) * 0.8).toFixed(2), in units of 0.01 contract.
ReducedSize(sz) == RoundDiv(sz * 8, 10)

\* executeOrder before the order request: ensureLongShortMode, the positions
\* query that decides reduceOnly, and setLeverage, which throws on failure.
ExecPrepare(i) ==
  /\ pc[i] = "exec"
  /\ LET d == Head(loc[i].decs)
         c == d.coin
         held == exPos[c].pos > 0
         ro == IF ~held THEN FALSE
               ELSE IF exPos[c].side = "long" THEN d.action = "SELL" ELSE d.action = "BUY"
         side == IF held THEN exPos[c].side
                 ELSE IF d.action = "BUY" THEN "long" ELSE "short"
     IN IF isSimulation
        THEN /\ logs' = logs \cup LoggedAfter(c)
             /\ loc' = NextDecision(i, loc)
             /\ Goto(i, "process")
             /\ UNCHANGED lastExec
        ELSE \E reached \in BOOLEAN :
               IF ~reached
               THEN /\ lastExec' = [NoExec EXCEPT !.coin = c, !.done = TRUE, !.threw = TRUE,
                                                  !.opening = d.action # "CLOSE" /\ ~ro]
                    /\ loc' = NextDecision(i, loc)
                    /\ Goto(i, "process")
                    /\ UNCHANGED logs
               ELSE IF d.action = "CLOSE"
               THEN /\ lastExec' = [NoExec EXCEPT !.coin = c]
                    /\ Goto(i, "execClose")
                    /\ UNCHANGED <<logs, loc>>
               ELSE /\ lastExec' = [NoExec EXCEPT !.coin = c, !.opening = ~ro]
                    /\ loc' = [loc EXCEPT ![i].side = side, ![i].reduceOnly = ro,
                                          ![i].sz = d.size, ![i].retries = PLACE_RETRIES]
                    /\ Goto(i, "execOrder")
                    /\ UNCHANGED logs
  /\ UNCHANGED <<engineVars, stageVars, loop, isSimulation, now, isRunning, isProcessing,
                 lastAnalysisTime, lastCleanupTime, previousActiveInstIds, marketData,
                 accountData, latestDecisions, decisionHistory, exchangeVars, runs,
                 skipped, sweepCancels, lastSweep>>

\* The close-position requests of executeOrder: long, then short; the answer
\* of the second is returned whatever its code.
ExecClose(i) ==
  /\ pc[i] = "execClose"
  /\ LET c == Head(loc[i].decs).coin
     IN \E outcome \in {"closed", "rejected", "threw"} :
          /\ outcome = "closed" => exPos[c].pos > 0
          /\ exPos' = IF outcome = "closed" THEN [exPos EXCEPT ![c] = Flat] ELSE exPos
          /\ logs' = IF outcome = "threw" THEN logs ELSE logs \cup LoggedAfter(c)
          /\ lastExec' = [lastExec EXCEPT !.done = TRUE, !.threw = outcome = "threw"]
  /\ loc' = NextDecision(i, loc)
  /\ Goto(i, "process")
  /\ UNCHANGED <<engineVars, stageVars, loop, isSimulation, now, isRunning, isProcessing,
                 lastAnalysisTime, lastCleanupTime, previousActiveInstIds, marketData,
                 accountData, latestDecisions, decisionHistory, exAlgos, nextId, runs,
                 skipped, sweepCancels, lastSweep>>

\* The price a market order fills at.
FillPrice(c) == IF marketData[c].ok THEN marketData[c].last ELSE EngEntry

\* The position after a market order of sz filled at px.
Filled(p, side, ro, sz, px) ==
  IF ro
  THEN IF sz >= p.pos THEN Flat ELSE [p EXCEPT !.pos = p.pos - sz]
  ELSE IF p.pos = 0
  THEN [side |-> side, pos |-> sz, avgPx |-> px, cTime |-> now]
  ELSE [p EXCEPT !.pos = p.pos + sz,
                 !.avgPx = (p.pos * p.avgPx + sz * px) \div (p.pos + sz)]

\* placeOrderWithRetry: the market order with the stop attached when it is
\* not reduce-only; code 51008 retries at 0.8 of the size while retries are
\* left, any other error code throws.
ExecOrder(i) ==
  /\ pc[i] = "execOrder"
  /\ LET d  == Head(loc[i].decs)
         c  == d.coin
         ro == loc[i].reduceOnly
         sz == loc[i].sz
         reduced == ReducedSize(sz)
         stop == IF d.stop_loss > 0 /\ ~ro
                 THEN {Order(nextId, c, "sl", d.stop_loss)} ELSE {}
     IN \E outcome \in {"filled", "insufficient", "rejected"} :
          IF outcome = "filled"
          THEN /\ sz > 0
               /\ ro => exPos[c].pos > 0
               /\ exPos' = [exPos EXCEPT ![c] = Filled(@, loc[i].side, ro, sz, FillPrice(c))]
               /\ exAlgos' = exAlgos \cup stop
               /\ nextId' = nextId + 1
               /\ lastExec' = [lastExec EXCEPT !.market = TRUE, !.done = ro,
                                               !.stop = stop # {},
                                               !.staged = IF ro THEN {}
                                                          ELSE Staged(sz, COIN_CONFIG[c].minU)]
               /\ logs' = IF ro THEN logs \cup LoggedAfter(c) ELSE logs
               /\ loc' = IF ro THEN NextDecision(i, loc) ELSE loc
               /\ Goto(i, IF ro THEN "process" ELSE "execDetails")
          ELSE IF outcome = "insufficient" /\ loc[i].retries > 0 /\ reduced >= 1
          THEN /\ loc' = [loc EXCEPT ![i].sz = reduced, ![i].retries = @ - 1]
               /\ UNCHANGED <<exPos, exAlgos, nextId, lastExec, logs, pc>>
          ELSE /\ lastExec' = [lastExec EXCEPT !.done = TRUE, !.threw = TRUE]
               /\ loc' = NextDecision(i, loc)
               /\ Goto(i, "process")
               /\ UNCHANGED <<exPos, exAlgos, nextId, logs>>
  /\ UNCHANGED <<engineVars, stageVars, loop, isSimulation, now, isRunning, isProcessing,
                 lastAnalysisTime, lastCleanupTime, previousActiveInstIds, marketData,
                 accountData, latestDecisions, decisionHistory, runs, skipped,
                 sweepCancels, lastSweep>>

\* getOrderDetails after the fill: it throws when the order cannot be read.
ExecDetails(i) ==
  /\ pc[i] = "execDetails"
  /\ \E read \in BOOLEAN :
       IF read
       THEN /\ Goto(i, "execAlgos")
            /\ UNCHANGED <<loc, lastExec>>
       ELSE /\ lastExec' = [lastExec EXCEPT !.done = TRUE, !.threw = TRUE]
            /\ loc' = NextDecision(i, loc)
            /\ Goto(i, "process")
  /\ UNCHANGED <<engineVars, stageVars, loop, isSimulation, now, serverVars,
                 exchangeVars, runs, skipped, sweepCancels, lastSweep>>

\* placeAlgoStrategy, then executeOrder returns the order's answer.
ExecAlgos(i) ==
  /\ pc[i] = "execAlgos"
  /\ LET d == Head(loc[i].decs)
         c == d.coin
     IN /\ \E placed \in PlacementOutcomes(lastExec.staged) :
             /\ exAlgos' = exAlgos \cup
                  { Order(nextId + KindIndex(k), c, k,
                          TpPrice(loc[i].side, FillPrice(c), IF k = "trail" THEN "tp3" ELSE k))
                    : k \in placed }
             /\ lastExec' = [lastExec EXCEPT !.done = TRUE, !.placed = placed]
        /\ nextId' = nextId + 4
        /\ logs' = logs \cup LoggedAfter(c)
  /\ loc' = NextDecision(i, loc)
  /\ Goto(i, "process")
  /\ UNCHANGED <<engineVars, stageVars, loop, isSimulation, now, isRunning, isProcessing,
                 lastAnalysisTime, lastCleanupTime, previousActiveInstIds, marketData,
                 accountData, latestDecisions, decisionHistory, exPos, runs, skipped,
                 sweepCancels, lastSweep>>

\* An invocation that returns without releasing the lock.
FinallyKeepsLock(i) ==
  /\ pc[i] = "finally"
  /\ marketData' = IF loop = "legacy" THEN marketData ELSE [c \in Coins |-> NoMarket]
  /\ accountData' = IF loop = "legacy" THEN accountData ELSE NoAccount
  /\ loc' = [loc EXCEPT ![i] = NoLocals]
  /\ lastSweep' = NoSweep
  /\ lastExec' = NoExec
  /\ Goto(i, "idle")
  /\ UNCHANGED <<engineVars, stageVars, loop, isSimulation, now, isRunning, isProcessing,
                 lastAnalysisTime, lastCleanupTime, previousActiveInstIds,
                 latestDecisions, decisionHistory, logs, exchangeVars,
                 runs, skipped, sweepCancels>>

\* finally { isProcessing = false; } - the legacy loop has no lock to release.
\* The invocation's locals and the record of its last sweep and order end
\* with it.  Under the lock the next cycle overwrites marketData and
\* accountData before it reads them, so the state does not keep them.
Finally(i) ==
  /\ pc[i] = "finally"
  /\ isProcessing' = IF loop = "legacy" THEN isProcessing ELSE FALSE
  /\ marketData' = IF loop = "legacy" THEN marketData ELSE [c \in Coins |-> NoMarket]
  /\ accountData' = IF loop = "legacy" THEN accountData ELSE NoAccount
  /\ loc' = [loc EXCEPT ![i] = NoLocals]
  /\ lastSweep' = NoSweep
  /\ lastExec' = NoExec
  /\ Goto(i, "idle")
  /\ UNCHANGED <<engineVars, stageVars, loop, isSimulation, now, isRunning,
                 lastAnalysisTime, lastCleanupTime, previousActiveInstIds,
                 latestDecisions, decisionHistory, logs, exchangeVars,
                 runs, skipped, sweepCancels>>

\* No invocation of the loop is in flight.
Quiet == \A i \in Inv : pc[i] = "idle"

\* Time passes between two cycles: the scan interval of a held position or
\* the scan interval of a flat account.
AdvanceTime ==
  /\ Quiet
  /\ \E held \in BOOLEAN :
       /\ now + intervalMs(held) <= StartNow + MaxAdvances * intervalMs(FALSE)
       /\ now' = now + intervalMs(held)
  /\ UNCHANGED <<engineVars, stageVars, loop, isSimulation, serverVars, exchangeVars,
                 pc, loc, runs, skipped, historyVars>>

\* app.post('/api/toggle') with running = true: the operator starts the engine
\* between two cycles.
Toggle ==
  /\ Quiet
  /\ ~isRunning
  /\ isRunning' = TRUE
  /\ UNCHANGED <<engineVars, stageVars, loop, isSimulation, now, isProcessing,
                 lastAnalysisTime, lastCleanupTime, previousActiveInstIds, marketData,
                 accountData, latestDecisions, decisionHistory, logs, exchangeVars,
                 pc, loc, runs, skipped, historyVars>>

\* The exchange triggers the stop of a held position: it closes, the stop is
\* consumed, the other conditional orders stay pending.  The model lets it
\* happen between two cycles and while an invocation waits at the start of
\* executeOrder with a BUY or SELL for that instrument, after the snapshot its
\* decision was computed from.
StopTriggered(c) ==
  /\ Quiet \/ \E i \in Inv : /\ pc[i] = "exec"
                             /\ Head(loc[i].decs).coin = c
                             /\ Head(loc[i].decs).action \in {"BUY", "SELL"}
  /\ exPos[c].pos > 0
  /\ \E o \in AlgosOf(c) :
       /\ o.kind = "sl"
       /\ exAlgos' = exAlgos \ {o}
  /\ exPos' = [exPos EXCEPT ![c] = Flat]
  /\ UNCHANGED <<engineVars, stageVars, loop, isSimulation, now, serverVars, nextId,
                 pc, loc, runs, skipped, historyVars>>

Loops == {"server", "fast", "legacy"}

\* The exchange accounts the runs start from: nothing; three orphaned
\* reduce-only orders and one order that is not reduce-only on a flat
\* instrument; a long position with its stop and first take-profit; an
\* account in one-way mode with a position of half the usual size and no
\* conditional order (posSide 'net', pos > 0).
NetStart ==
  [pos |-> [c \in Coins |-> IF c = "ETH"
                             THEN [side |-> "net", pos |-> EngHeld \div 2,
                                   avgPx |-> EngEntry, cTime |-> 0]
                             ELSE Flat],
   algos |-> {}, next |-> 1]

ExchangeStarts ==
  { NetStart, [pos |-> [c \in Coins |-> Flat], algos |-> {}, next |-> 1],
    [pos |-> [c \in Coins |-> Flat],
     algos |-> { Order(1, "ETH", "tp1", TpPrice("long", EngEntry, "tp1")),
                 Order(2, "ETH", "tp2", TpPrice("long", EngEntry, "tp2")),
                 Order(3, "ETH", "tp3", TpPrice("long", EngEntry, "tp3")),
                 [Order(4, "ETH", "manual", EngEntry - 100) EXCEPT !.ro = FALSE] },
     next |-> 5],
    [pos |-> [c \in Coins |-> IF c = "ETH"
                               THEN [side |-> "long", pos |-> EngHeld,
                                     avgPx |-> EngEntry, cTime |-> 0]
                               ELSE Flat],
     algos |-> { Order(1, "ETH", "sl", EngEntry - 50),
                 Order(2, "ETH", "tp1", TpPrice("long", EngEntry, "tp1")) },
     next |-> 3] }

Init ==
  /\ EngineIdle
  /\ SignalIdle
  /\ StagesIdle
  /\ ServerStart
  /\ loop \in Loops
  /\ isSimulation \in BOOLEAN
  /\ now = StartNow
  /\ \E x \in ExchangeStarts :
       /\ isSimulation => x.algos = {} /\ x # NetStart
       /\ x = NetStart => loop = "legacy"
       /\ loop = "legacy" => isSimulation \/ x = NetStart
       /\ exPos = x.pos
       /\ exAlgos = x.algos
       /\ nextId = x.next

Next ==
  \/ \E i \in Inv :
       \/ Tick(i) \/ TickBusy(i) \/ FetchMarket(i) \/ FetchAccount(i)
       \/ CleanupStart(i) \/ SweepQuery(i) \/ SweepCancel(i) \/ CleanupPeriodic(i)
       \/ CleanupDone(i) \/ Gate(i) \/ Decide(i) \/ Process(i)
       \/ TpslPlace(i) \/ TpslCancel(i)
       \/ ExecPrepare(i) \/ ExecClose(i) \/ ExecOrder(i) \/ ExecDetails(i) \/ ExecAlgos(i)
       \/ Finally(i)
  \/ AdvanceTime
  \/ Toggle
  \/ \E c \in Coins : StopTriggered(c)

Spec == Init /\ [][Next]_vars

\* ------------------------------------------- properties of one engine run

ePos == eIn.acct.positions[eIn.coin]

eOpening(d) == /\ ePhase = "out"
               /\ d.action \in {"BUY", "SELL"}
               /\ ~d.isClose
               /\ d.size > 0

eMarginWithinAvail(d) ==
  d.size * COIN_CONFIG[eIn.coin].ctN * eIn.md.last
    <= eIn.acct.availEq * 10 * DEFAULT_LEVERAGE * COIN_CONFIG[eIn.coin].ctD

\* C4: a long position under a DOWN trend, or a short position under an UP
\* trend, always gets a decision whose action is CLOSE.
C4_ReversalAlwaysCloses ==
  ( /\ ePhase = "out"
    /\ hasPosition(ePos)
    /\ \/ ePos.posSide = "long"  /\ analyze1HTrend(eIn.md.candles1H) = "DOWN"
       \/ ePos.posSide = "short" /\ analyze1HTrend(eIn.md.candles1H) = "UP" )
  => (eDec.action = "CLOSE" /\ eDecR.action = "CLOSE")

\* C7: the margin of every opening decision with a non-zero size,
\* size * contract value * price / leverage, is at most the available equity
\* of the snapshot the decision was computed from.
C7_OpeningMarginWithinAvail ==
  /\ eOpening(eDec) => eMarginWithinAvail(eDec)
  /\ eOpening(eDecR) => eMarginWithinAvail(eDecR)

\* C10: when the narrative call fails, the decision has the action, size and
\* stop it would have had if the call had succeeded.
C10_LlmFailureKeepsDecision ==
  (ePhase = "out" /\ ~eIn.llm.ok) =>
    LET ok == [ok |-> TRUE, mentions |-> {}]
        d  == analyzeCoin(eIn.coin, eIn.md, eIn.acct, eIn.logs, ok)
        dR == analyzeCoinRatio(eIn.coin, eIn.md, eIn.acct, ok)
    IN /\ eDec.action = d.action /\ eDecR.action = dR.action
       /\ eDec.size = d.size /\ eDecR.size = dR.size
       /\ eDec.stop_loss = d.stop_loss /\ eDecR.stop_loss = dR.stop_loss

\* ------------------------------------ properties of a position's lifecycle

\* C2: over the cycles of one position, each of the three partial-close
\* stages joins a partial-close decision in at most one cycle.
C2_StageFiresOnce ==
  sVersion \in {"fast", "server"} => \A t \in StageTags : sFired[t] <= 1

\* C3: every UPDATE_TPSL decision on a position that has a stop carries a new
\* stop strictly above the current one for a long, strictly below for a short.
C3_StopOnlyTightens ==
  (sCycle > 0 /\ sDec.action = "UPDATE_TPSL" /\ sSnapSL > 0) =>
    IF sPos.posSide = "long" THEN sDec.stop_loss > sSnapSL
                             ELSE sDec.stop_loss < sSnapSL

\* ------------------------------------------- properties of the runtime loop

\* C1: at most one invocation of runTradingLoop is past its entry at any
\* time; an invocation that arrives while another is suspended on a network
\* call fetches nothing, sweeps nothing, evaluates and dispatches nothing.
C1_SingleCycleInProgress == Cardinality({i \in Inv : pc[i] # "idle"}) <= 1

\* C5: no accepted cancellation of the sweeper is for an instrument that
\* holds a position on the exchange when the cancellation is issued.
C5_SweepSparesHeldInstruments == \A s \in sweepCancels : ~s.held

C8_FailedRefreshAbortsCycle ==
  \A i \in Inv :
    (loop # "legacy" /\ pc[i] # "idle" /\ loc[i].failed) =>
      (~loc[i].acted /\ EngineState = loc[i].start)

\* C9: once executeOrder has returned or thrown for an opening decision,
\* either no market order was placed or the market order and every staged
\* reduce-only order of placeAlgoStrategy were placed.
C9_NoHalfAppliedOpening ==
  (lastExec.done /\ lastExec.opening) =>
    (~lastExec.market \/ lastExec.placed = lastExec.staged)

\* ------------------------------------------- the narrative call (C11)

\* C11: for fixed market, account and log inputs the action, the size and the
\* stop of the returned decision are the same for every text the narrative
\* call can return.
C11_NarrativeLeavesDecision ==
  (ePhase = "out" /\ eIn.llm.ok) =>
    \A l \in EngLlm :
      l.ok =>
        LET d == analyzeCoin(eIn.coin, eIn.md, eIn.acct, eIn.logs, l)
        IN /\ d.action = eDec.action
           /\ d.size = eDec.size
           /\ d.stop_loss = eDec.stop_loss

\* A sized decision returned with a narrative that names a stage.
C11_Witness ==
  /\ ePhase = "out"
  /\ eIn.llm.ok /\ eIn.llm.mentions # {}
  /\ eDec.action \in {"BUY", "SELL"} /\ eDec.size > 0

\* ------------------------------------------- the enable flag (C12)

\* C12: while the enable flag is off, no step of a running cycle evaluates or
\* records a decision, moves the analysis timer, changes a position or places
\* an order; the only change on the exchange is the removal of conditional
\* orders by the sweeper's cancel request.
C12_DisabledCycleOnlySweeps ==
  [][ (~isRunning /\ ~Quiet) =>
        /\ latestDecisions' = latestDecisions
        /\ decisionHistory' = decisionHistory
        /\ lastAnalysisTime' = lastAnalysisTime
        /\ exPos' = exPos
        /\ nextId' = nextId
        /\ exAlgos' \subseteq exAlgos
        /\ exAlgos' # exAlgos => \E i \in Inv : pc[i] \in {"cancelA", "cancelB"}
        /\ \A i \in Inv : pc[i] = "gate" => pc'[i] \in {"gate", "finally"} ]_vars

\* A live cycle that passed the flag test with the flag off, the scan
\* interval elapsed, after its sweep cancelled orders.
C12_Witness ==
  /\ ~isRunning /\ ~isSimulation
  /\ sweepCancels # {}
  /\ \E i \in Inv :
       /\ pc[i] = "finally" /\ loc[i].at = now
       /\ ~(now - lastAnalysisTime < intervalMs(FALSE))

\* ------------------------------------------- the cadence gate (C13)

\* The step on which invocation i starts a decision evaluation: the step out
\* of the interval test under the lock, the timer callback without it.
EvaluationStarts(i) ==
  IF loop = "legacy" THEN pc[i] = "decide" /\ pc'[i] = "process"
                     ELSE pc[i] = "gate" /\ pc'[i] = "decide"

\* C13: a decision evaluation never starts less than N after the start of
\* the evaluation before it, N being the short interval when the account
\* snapshot holds a non-zero position and the long interval otherwise.
C13_EvaluationsSpaced ==
  [][ \A i \in Inv :
        EvaluationStarts(i) =>
          \/ lastAnalysisTime = 0
          \/ now - lastAnalysisTime
                >= intervalMs(\E c \in Coins : accountData.positions[c].pos > 0) ]_vars

\* ------------------------------------ isolation of dispatch failures (C14)

\* The positions of an invocation inside updatePositionTPSL or executeOrder.
DispatchLabels == {"tpsl", "tpslCancel", "exec", "execClose", "execOrder",
                   "execDetails", "execAlgos"}

\* C14: however the dispatch of one decision ends (answered, rejected or
\* thrown), the loop goes on with the decisions that remain: each of them is
\* recorded, each one that is not HOLD is dispatched, and the cycle ends only
\* when none remains.
C14_DispatchFailureIsolated ==
  [][ \A i \in Inv :
        /\ (pc[i] \in DispatchLabels /\ pc'[i] \notin DispatchLabels) =>
              /\ pc'[i] = "process"
              /\ loc'[i].decs = Tail(loc[i].decs)
        /\ (pc[i] = "process" /\ loc[i].decs # <<>>
              /\ (pc'[i] # pc[i] \/ loc'[i] # loc[i])) =>
              LET d == Head(loc[i].decs)
              IN /\ latestDecisions'[d.coin] = HistoryEntry(d)
                 /\ Head(decisionHistory') = HistoryEntry(d)
                 /\ d.action \notin {"HOLD", "UPDATE_TPSL"} => pc'[i] = "exec"
        /\ (pc[i] = "process" /\ pc'[i] = "finally") => loc[i].decs = <<>> ]_vars

\* In live mode the opening order of ETH did not fill in this cycle (ETH is
\* still flat) and the opening order of SOL, decided in the same cycle, is
\* at the exchange.
C14_Witness ==
  /\ ~isSimulation
  /\ \E i \in Inv :
       /\ pc[i] = "execOrder"
       /\ Head(loc[i].decs).coin = "SOL"
       /\ marketData["ETH"].ok /\ marketData["ETH"].entry3m.signal
       /\ "ETH" \in DOMAIN latestDecisions
       /\ latestDecisions["ETH"].action = "BUY"
       /\ exPos["ETH"].pos = 0

\* ------------------------------- stage one of the size-ratio engine (C15)

\* C15: in the size-ratio engine, once the partial close of stage one has
\* filled, no later cycle on that position returns the partial close of
\* stage one again.
C15_RatioStageOneOnce ==
  [][ (sVersion = "ratio" /\ "s1" \in sFilled /\ sCycle' # sCycle) =>
        ~(/\ sDec'.action \in {"BUY", "SELL"} /\ sDec'.isClose
          /\ \E k \in 1..Len(sDec'.hit) : sDec'.hit[k] = "s1") ]_vars

\* ------------------------------------------- the sizes of decisions (C16-C20)

eMin == COIN_CONFIG[eIn.coin].minU

\* C16: the size of every returned decision is a non-negative whole multiple
\* of the instrument's minimum size, or it is the whole held size of a
\* position smaller than one minimum size.
C16_SizeIsStepMultiple ==
  ePhase = "out" =>
    \A d \in {eDec, eDecR} :
      /\ d.size >= 0
      /\ \/ d.size % eMin = 0
         \/ ePos.pos < eMin /\ d.size = ePos.pos

\* A partial close of a position of one and a half minimum sizes.
C16_Witness ==
  /\ ePhase = "out"
  /\ eIn.coin = "BNB"
  /\ ePos.pos = EngOddHeld
  /\ eDec.isClose /\ eDec.size > 0

\* An opening is requested: no position is held and the entry detector
\* signals.
eOpenRequested ==
  /\ ePhase = "out"
  /\ ~eDec.error
  /\ ~hasPosition(ePos)
  /\ eIn.md.entry3m.signal

\* C17: when the available equity does not cover the margin of one minimum
\* size, an opening request is returned as HOLD with size 0 and a rationale
\* that states the funds shortfall.
C17_ShortfallHoldsWithReason ==
  (eOpenRequested /\ ~Affordable(COIN_CONFIG[eIn.coin], eIn.acct.availEq, eIn.md.last, eMin)) =>
    \A d \in {eDec, eDecR} :
      /\ d.action = "HOLD"
      /\ d.size = 0
      /\ d.rationale = "shortfall"

\* C18: a partial-close decision never asks for more contracts than the
\* position holds in the snapshot it was computed from.
C18_CloseWithinHeld ==
  ePhase = "out" =>
    \A d \in {eDec, eDecR} :
      (d.isClose /\ d.action \in {"BUY", "SELL"}) => d.size <= ePos.pos

\* The closing amount each engine asks for before the dust rule, quantized
\* to the minimum size.
eCloseQuantized ==
  Quantize(LocalLogic(eIn.coin, eIn.md, eIn.acct, eIn.logs).size.num * 100, 1,
           COIN_CONFIG[eIn.coin])

eCloseQuantizedRatio ==
  Quantize(LocalLogicRatio(eIn.coin, eIn.md, eIn.acct).size.num * 100, 1,
           COIN_CONFIG[eIn.coin])

eDustHeld == hasPosition(ePos) /\ ePos.pos < eMin

\* C19: a closing request whose quantized amount is zero, on a position that
\* holds a non-zero amount below one minimum size, is returned as a close of
\* the whole residual.
C19_DustClosesResidual ==
  (ePhase = "out" /\ eDustHeld) =>
    /\ (eDec.isClose /\ ~eDec.error /\ eCloseQuantized = 0) =>
          (eDec.action \in {"BUY", "SELL"} /\ eDec.size = ePos.pos)
    /\ (eDecR.isClose /\ ~eDecR.error /\ eCloseQuantizedRatio = 0) =>
          (eDecR.action \in {"BUY", "SELL"} /\ eDecR.size = ePos.pos)

\* The quantized target of a 10% opening: targetContracts.
eTarget ==
  LET cfg == COIN_CONFIG[eIn.coin]
  IN ToPrecision(Quantize(eIn.acct.totalEq * 10 * cfg.ctD * (DEFAULT_LEVERAGE \div 10),
                          cfg.ctN * eIn.md.last, cfg), cfg)

\* The largest multiple of the minimum size whose margin the available
\* equity covers.
eLargestAffordable ==
  LET cfg == COIN_CONFIG[eIn.coin]
      u   == (eIn.acct.availEq * 10 * DEFAULT_LEVERAGE * cfg.ctD) \div (cfg.ctN * eIn.md.last)
  IN (u \div cfg.minU) * cfg.minU

\* C20: when the available equity does not cover the margin of the quantized
\* target but covers one minimum size, the opening decision has the largest
\* multiple of the minimum size whose margin the available equity covers.
C20_ScalesToLargestAffordable ==
  ( /\ eOpenRequested
    /\ ~Affordable(COIN_CONFIG[eIn.coin], eIn.acct.availEq, eIn.md.last, eTarget)
    /\ Affordable(COIN_CONFIG[eIn.coin], eIn.acct.availEq, eIn.md.last, eMin) )
  => \A d \in {eDec, eDecR} : d.size = eLargestAffordable

\* ------------------------------------------ the order retry loop (C21)

\* The step on which invocation i sends the order again after code 51008.
Retries(i) == pc[i] = "execOrder" /\ pc'[i] = "execOrder" /\ loc'[i] # loc[i]

\* C21: an order starts with two retries; each retry after the margin/size
\* rejection code uses up one of them, sends 0.8 of the refused size rounded
\* to 0.01 contract and never less than 0.01, and leaves the decisions of the
\* cycle, the recorded decisions and the analysis timer as they are; with no
\* retry left the rejection ends the dispatch.
C21_RetryShrinksBounded ==
  [][ \A i \in Inv :
        /\ (pc[i] = "exec" /\ pc'[i] = "execOrder") =>
              /\ loc'[i].retries = 2
              /\ loc'[i].sz = Head(loc[i].decs).size
        /\ Retries(i) =>
              /\ loc[i].retries \in 1..2
              /\ loc'[i].retries = loc[i].retries - 1
              /\ loc'[i].sz * 10 - loc[i].sz * 8 \in -4..5
              /\ loc'[i].sz >= 1
              /\ loc'[i].decs = loc[i].decs
              /\ UNCHANGED <<latestDecisions, decisionHistory, lastAnalysisTime,
                             exPos, exAlgos>> ]_vars

\* An order whose two retries are used up and that is now sent with a size
\* smaller than the size of its decision.
C21_Witness ==
  \E i \in Inv :
    /\ pc[i] = "execOrder"
    /\ loc[i].retries = 0
    /\ loc[i].sz < Head(loc[i].decs).size

\* ------------------------------- any failed request of the refresh (C22)

\* The positions of an invocation from the cleanup block to the end of the
\* dispatch loop: past the refresh and not leaving.
PastRefresh(i) == pc[i] \notin {"idle", "fetchMarket", "fetchAccount", "finally"}

\* C22: under the lock, a cycle that is past its refresh has the market data
\* of every tradable instrument and an answered balance and positions
\* request: a cycle with any failed request has left before the cleanup.
C22_AnyFailedRequestAborts ==
  \A i \in Inv :
    (loop # "legacy" /\ PastRefresh(i)) =>
      /\ \A c \in Coins : marketData[c].ok
      /\ ~loc[i].failed

\* ------------------------------- every decision dispatched once (C23)

\* The step on which invocation i takes the head of its decisions in the
\* for loop.
TakesDecision(i) ==
  /\ pc[i] = "process" /\ loc[i].decs # <<>>
  /\ (pc'[i] # pc[i] \/ loc'[i] # loc[i])

\* The first positions of updatePositionTPSL and of executeOrder.
DispatchEntries == {"tpsl", "exec"}

\* C23: the loop takes the returned decisions one by one; a decision that is
\* not HOLD goes to updatePositionTPSL or executeOrder on the step that takes
\* it, a HOLD decision is dropped on that step, a dispatch is entered on no
\* other step, and the decision is removed when its dispatch ends, so that
\* it is never taken again.
C23_NonHoldDispatchedOnce ==
  [][ \A i \in Inv :
        /\ TakesDecision(i) =>
              LET d == Head(loc[i].decs)
              IN IF d.action = "HOLD"
                 THEN pc'[i] = "process" /\ loc'[i].decs = Tail(loc[i].decs)
                 ELSE pc'[i] \in DispatchEntries /\ loc'[i].decs = loc[i].decs
        /\ (pc[i] \notin DispatchEntries /\ pc'[i] \in DispatchEntries) =>
              TakesDecision(i)
        /\ (pc[i] \in DispatchLabels /\ pc'[i] = "process") =>
              /\ Head(loc[i].decs).action # "HOLD"
              /\ loc'[i].decs = Tail(loc[i].decs) ]_vars

\* ------------------------------------ the sweep's own timer (C24)

\* The positions of an invocation after the cleanup block.
PastCleanup(i) == PastRefresh(i) /\ pc[i] \notin {"cleanup", "sweepA", "cancelA", "sweepB", "cancelB"}

\* C24: in live mode, in the loops that have the cleanup block, a cycle
\* that has passed the block has either run the periodic pass itself or
\* started no more than the cleanup interval after the last pass, whether
\* the engine is enabled or not; and a pass, once begun, visits every
\* instrument without a position before the cycle goes on.
C24_SweepOnOwnTimer ==
  /\ [](\A i \in Inv :
          (~isSimulation /\ loop # "legacy" /\ PastCleanup(i)) =>
            now - lastCleanupTime <= CleanupInterval)
  /\ [][ \A i \in Inv :
          /\ (pc[i] = "sweepA" /\ pc'[i] = "sweepB") =>
                loc'[i].queue = SeqOf({c \in Coins : accountData.positions[c].pos = 0})
          /\ (pc[i] = "sweepB" /\ pc'[i] = "gate") => loc[i].queue = <<>> ]_vars

\* With the engine disabled, the second cycle of a run, started more than
\* the cleanup interval after the pass of the first, is in its own pass.
C24_Witness ==
  \E i \in Inv :
    /\ ~isRunning /\ ~isSimulation
    /\ pc[i] = "sweepB"
    /\ runs = 2 /\ now > StartNow + CleanupInterval
    /\ lastCleanupTime = now

\* ------------------------------------------ the sweep run twice (C25)

\* Invocation i runs checkAndCancelOrphanedAlgos in the periodic pass for
\* the instrument that the run before it, in the trigger-based pass of the
\* same cycle, was for: nothing has happened on the exchange in between.
SecondRun(i) ==
  /\ pc[i] = "sweepB" /\ loc[i].queue # <<>>
  /\ loc'[i] # loc[i]
  /\ lastSweep.done /\ lastSweep.coin = Head(loc[i].queue)

\* The run recorded in lastSweep was answered: its query succeeded and its
\* cancel request, if it sent one, was accepted.
FirstRunAnswered == lastSweep.queried /\ (lastSweep.pendingRO = {} \/ lastSweep.accepted)

sRoiBelow(k) ==
  ~NetRoiGE(COIN_CONFIG[StageCoin], StageAccount.positions[StageCoin], sLast, k)

\* C26: once the partial close of stage three has been filled, every cycle
\* that finds the net ROI below 7% returns CLOSE.
C26_TailClosesBelowFloor ==
  [][ ("s3" \in sFilled /\ sCycle' # sCycle /\ sRoiBelow(7)) =>
        sDec'.action = "CLOSE" ]_vars

\* ---------------------------------- break-even after stage two (C27)

\* The fee buffer of the build in thousandths of the entry price:
\* avgEntry * 0.002 in the log-backtracking engine, avgEntry * 0.001 in the
\* size-ratio engine.
sFeeBuffer == IF sVersion = "ratio" THEN 1 ELSE 2

\* The position's stop is at or beyond the entry price plus (long) or minus
\* (short) the fee buffer.
sStopSecured ==
  IF sPos.posSide = "long"
  THEN sPos.slTriggerPx * 1000 >= sPos.avgPx * (1000 + sFeeBuffer)
  ELSE sPos.slTriggerPx > 0 /\ sPos.slTriggerPx * 1000 <= sPos.avgPx * (1000 - sFeeBuffer)

\* The entry price plus or minus the fee buffer, as the build writes it.
sBreakEven == IF sVersion = "ratio" THEN MaintenanceStop(sPos) ELSE BeStop(sPos)

\* C27: once the partial close of stage two has been filled, every cycle
\* whose engine call returns, that is neither a close on a trend reversal
\* nor a partial close, and whose snapshot has the stop short of break-even
\* plus fee buffer, returns UPDATE_TPSL with the stop at the entry price plus
\* the fee buffer for a long, minus the fee buffer for a short.
C27_BreakEvenAfterStageTwo ==
  [][ ( /\ "s2" \in sFilled /\ sCycle' # sCycle
        /\ ~sDec'.error
        /\ sDec'.action # "CLOSE"
        /\ ~(sDec'.action \in {"BUY", "SELL"} /\ sDec'.isClose)
        /\ ~sStopSecured )
      => (sDec'.action = "UPDATE_TPSL" /\ sDec'.stop_loss = sBreakEven) ]_vars

\* ---------------------------------------------- the trend classifier

\* The direction the two relations of the latest 1H candle call for.
ClassOf(h1) ==
  IF h1.c > h1.ema60 /\ h1.ema15 > h1.ema60 THEN "UP"
  ELSE IF h1.c < h1.ema60 /\ h1.ema15 < h1.ema60 THEN "DOWN"
  ELSE "NEUTRAL"

\* C28: on a 1H series of at least 100 candles whose latest candle has both
\* averages, analyze1HTrend returns UP exactly when the latest close and the
\* fast average are both above the slow average, DOWN exactly when both are
\* below it, and NEUTRAL otherwise -- in every version of aiService.
C28_TrendFollowsCloseAndFast ==
  (gPhase = "out" /\ gIn.h1.len >= 100 /\ gIn.h1.ema15 # 0 /\ gIn.h1.ema60 # 0) =>
     /\ gOut.tol.trend = ClassOf(gIn.h1)
     /\ gOut.win.trend = ClassOf(gIn.h1)

\* ------------------------------------------------ the entry detector

\* A golden cross at candle k of the 3m series (k counts from 1), after which
\* the fast average stays above the slow one up to the latest candle.
CleanGoldenCross(in, k) ==
  /\ k \in 2..in.len
  /\ crossedUp(candles3m(in)[k - 1], candles3m(in)[k])
  /\ \A y \in k..in.len : candles3m(in)[y].ema15 > candles3m(in)[y].ema60

\* C29: with the 1H trend UP and a 3m series of at least 100 candles that has
\* a clean golden cross no more than 5 candles before the latest candle,
\* analyze3mEntry signals BUY with a stop strictly below the current price
\* (the close of the latest candle).
C29_RecentGoldenCrossSignalsLong ==
  (/\ gPhase = "out"
   /\ gOut.tol.trend = "UP"
   /\ gIn.len >= 100
   /\ \E k \in (gIn.len - TOLERANCE_CANDLES)..gIn.len : CleanGoldenCross(gIn, k)) =>
     /\ gOut.tol.entry.signal
     /\ gOut.tol.entry.action = "BUY"
     /\ gOut.tol.entry.sl < gIn.last

\* The candles of the 3m series at which the fast average crosses the slow one
\* in the direction of the trend: upwards (at or below it at k - 1, above it
\* at k) for UP, downwards (at or above it at k - 1, below it at k) for DOWN.
MatchingCrosses(in, trend) ==
  { k \in 2..in.len :
      LET p == candles3m(in)[k - 1]
          c == candles3m(in)[k]
      IN \/ trend = "UP" /\ p.ema15 <= p.ema60 /\ c.ema15 > c.ema60
         \/ trend = "DOWN" /\ p.ema15 >= p.ema60 /\ c.ema15 < c.ema60 }

\* The most recent one lies no more than 5 candles before the latest candle.
RecentCross(in, trend) ==
  \E k \in MatchingCrosses(in, trend) : in.len - k <= 5

\* C30: whenever analyze3mEntry signals (in either version of aiService), it
\* signals BUY under the trend UP or SELL under the trend DOWN, never under
\* NEUTRAL, and the most recent crossover in the direction of the trend lies
\* no more than 5 candles before the latest candle.
C30_SignalNeedsTrendAndRecentCross ==
  gPhase = "out" =>
    \A v \in {"tol", "win"} :
      gOut[v].entry.signal =>
        /\ \/ gOut[v].trend = "UP" /\ gOut[v].entry.action = "BUY"
           \/ gOut[v].trend = "DOWN" /\ gOut[v].entry.action = "SELL"
        /\ RecentCross(gIn, gOut[v].trend)

\* A SELL signal of the tolerance version on a death cross exactly 5 candles
\* before the latest candle, which the window version does not signal.
C30_Witness ==
  /\ gPhase = "out"
  /\ gOut.tol.entry.signal /\ gOut.tol.entry.action = "SELL"
  /\ ~gOut.win.entry.signal
  /\ gIn.len - 5 \in MatchingCrosses(gIn, "DOWN")
  /\ \A k \in MatchingCrosses(gIn, "DOWN") : k <= gIn.len - 5

\* --------------------------------------------- series without a seed

\* C31: on a series of fewer than 100 candles, or one whose latest candle
\* lacks the averages, analyze1HTrend returns NEUTRAL and analyze3mEntry
\* returns no signal (HOLD) with a reason; each returns a result (the step
\* that calls them ends with both results in place).
C31_ShortOrBareSeriesGiveNothing ==
  gPhase = "out" =>
    /\ (gIn.h1.len < 100 \/ gIn.h1.ema15 = 0 \/ gIn.h1.ema60 = 0) =>
          gOut.tol.trend = "NEUTRAL"
    /\ (gIn.len < 100 \/ gIn.bare) =>
          /\ ~gOut.tol.entry.signal
          /\ gOut.tol.entry.action = "HOLD"
          /\ gOut.tol.entry.reason \in {"insufficient data", "indicators missing"}

\* The trend is UP and the 3m series of 100 candles ends in a fresh golden
\* cross whose latest candle has no averages: no signal.
C31_Witness ==
  /\ gPhase = "out"
  /\ gOut.tol.trend = "UP"
  /\ gIn.len = 100 /\ gIn.bare
  /\ gIn.rels[SuffixLen - 1] < 0
  /\ gOut.tol.entry.reason = "indicators missing"

\* ------------------------------------------------- the stop ratchet

\* A cycle returns a stop update after an earlier one, the price having moved
\* in the position's favour (or not at all) at every cycle in between.
sNextUpdate ==
  /\ sCycle' # sCycle
  /\ sDec'.action = "UPDATE_TPSL" /\ sDec'.stop_loss > 0
  /\ sUpd.stop > 0 /\ sUpd.rising
  /\ Favourable(sPos.posSide, sUpd.last, sLast)

\* The later stop is not on the losing side of the earlier one.
sRatchets ==
  IF sPos.posSide = "long" THEN sDec'.stop_loss >= sUpd.stop
                           ELSE sDec'.stop_loss <= sUpd.stop

AllocExample ==
  /\ ePhase = "out"
  /\ eIn \in AllocInputs
  /\ eIn.acct.availEq >= 100050
  /\ ~eDec.error

\* C33: in the allocation example (equity 1000, 10%, leverage 20, contract
\* value 0.1, price 3000, minimum size 0.01, available >= 100.05) the
\* allocator opens 6.67 contracts, whose required margin is 100.05.
C33_ExampleOpensSixSixSeven ==
  AllocExample =>
    /\ eDec.action = "BUY"
    /\ eDec.size = 667
    /\ ExchangeMargin(COIN_CONFIG[eIn.coin], eDec.size, eIn.md.last, DEFAULT_LEVERAGE) = 100050

\* C33 (amended): in the allocation example the allocator opens 6.66
\* contracts, the largest multiple of 0.01 not above 2000 / 300, whose
\* required margin is 99.90.
C33_ExampleOpensSixSixSix ==
  AllocExample =>
    /\ eDec.action = "BUY"
    /\ eDec.size = 666
    /\ ExchangeMargin(COIN_CONFIG[eIn.coin], eDec.size, eIn.md.last, DEFAULT_LEVERAGE) = 99900

C33_Witness ==
  /\ AllocExample
  /\ eIn.acct.availEq = 100050
  /\ eDec.action = "BUY"
  /\ eDec.size > 0

\* An invocation that had passed the lock check returns.
CycleEnds(i) == pc[i] # "idle" /\ pc'[i] = "idle"

\* C34: whenever a cycle ends, by whatever path, the busy flag is clear
\* afterwards, and a timer tick that arrives while no cycle is in flight is
\* never turned away at the lock check: it starts a new cycle.
C34_EndedCycleReleasesLock ==
  [][ /\ \A i \in Inv : CycleEnds(i) => ~isProcessing'
      /\ Quiet => (~Busy /\ skipped' = skipped) ]_vars

\* A second cycle under the lock has started after a first cycle that ended
\* at the failed refresh or at one of the early returns, before any decision.
C34_Witness ==
  /\ loop # "legacy"
  /\ runs = 2
  /\ isProcessing
  /\ \E i \in Inv : pc[i] = "fetchMarket"
  /\ decisionHistory = <<>>

\* Invocation i leaves placeOrderWithRetry with the order of a decision that
\* the engine computed as a partial close.
PartialCloseSent(i) ==
  /\ pc[i] = "execOrder"
  /\ pc'[i] # "execOrder"
  /\ Head(loc[i].decs).isClose

\* C35: the order of a BUY/SELL decision computed as a partial close is sent
\* reduce-only and leaves the instrument's position no larger than it was,
\* also when the position was closed after the account snapshot.
C35_PartialCloseIsReduceOnly ==
  [][ \A i \in Inv :
        PartialCloseSent(i) =>
          /\ loc[i].reduceOnly
          /\ exPos'[Head(loc[i].decs).coin].pos <= exPos[Head(loc[i].decs).coin].pos ]_vars

\* Stage k was attempted in an earlier cycle without its order ever being
\* accepted, and the snapshot of the cycle now taken meets its ROI threshold;
\* the engine call returns, with no reversal close.
sRetryDue(k) ==
  /\ sVersion \in {"fast", "server"}
  /\ sCycle' = sCycle + 1
  /\ sFired[Stages[k].tag] > 0
  /\ Stages[k].tag \notin sFilled
  /\ NetRoiGE(COIN_CONFIG[StageCoin], StageAccount.positions[StageCoin], sLast,
              Stages[k].roi)
  /\ sDec'.action # "CLOSE"
  /\ ~sDec'.error

\* C36: a stage whose partial close was dispatched and not accepted is not
\* treated as fired: the next cycle whose snapshot meets its ROI threshold
\* returns a partial close that includes the stage again.
C36_FailedStageIsRetried ==
  [][ \A k \in 1..Len(Stages) :
        sRetryDue(k) =>
          /\ sDec'.action \in {"BUY", "SELL"}
          /\ sDec'.isClose
          /\ \E j \in 1..Len(sDec'.hit) : sDec'.hit[j] = Stages[k].tag ]_vars

\* Invocation i takes a step of updatePositionTPSL.
TpslStep(i) == pc[i] \in {"tpsl", "tpslCancel"} /\ pc'[i] # pc[i]

\* The pending stop orders of instrument c among the conditional orders A.
StopsIn(A, c) == {o \in A : o.coin = c /\ o.kind = "sl"}

\* C37: the step of updatePositionTPSL that places the new stop cancels
\* nothing, a rejected placement ends the call with every old stop pending,
\* and no step of the call leaves an instrument that had a pending stop
\* without one.
C37_StopReplacedNeverRemoved ==
  [][ \A i \in Inv :
        TpslStep(i) =>
          LET c == Head(loc[i].decs).coin
          IN /\ pc[i] = "tpsl" => StopsIn(exAlgos, c) \subseteq StopsIn(exAlgos', c)
             /\ (pc[i] = "tpsl" /\ exAlgos' = exAlgos) => pc'[i] # "tpslCancel"
             /\ StopsIn(exAlgos, c) # {} => StopsIn(exAlgos', c) # {} ]_vars

\* The new stop is pending next to the old one, which is about to be
\* cancelled.
C37_Witness ==
  \E i \in Inv :
    /\ pc[i] = "tpslCancel"
    /\ loc[i].old # {}
    /\ loc[i].old \subseteq exAlgos
    /\ StopsIn(exAlgos, Head(loc[i].decs).coin) \ loc[i].old # {}

\* The margin, in 0.001 USDT, that the opening decisions among decs require
\* at the prices of the snapshot.
RECURSIVE OpeningMargin(_)
OpeningMargin(decs) ==
  IF decs = <<>> THEN 0
  ELSE LET d == Head(decs)
       IN (IF d.action \in {"BUY", "SELL"} /\ ~d.isClose /\ d.size > 0
           THEN ExchangeMargin(COIN_CONFIG[d.coin], d.size, marketData[d.coin].last,
                               DEFAULT_LEVERAGE)
           ELSE 0) + OpeningMargin(Tail(decs))

\* C38: the opening decisions that one call of getTradingDecision returns
\* require, together, no more margin than the available equity of the
\* snapshot they were computed from.
C38_OpeningsWithinAvailable ==
  [][ \A i \in Inv :
        (pc[i] = "decide" /\ pc'[i] = "process") =>
          OpeningMargin(loc'[i].decs) <= accountData.availEq ]_vars

\* C39: no decision the engine returns for dispatch has the action BUY or
\* SELL and the size zero.
C39_NoZeroSizedOrder ==
  (ePhase = "out" /\ eDec.action \in {"BUY", "SELL"}) => eDec.size > 0

\* Decision d, if it is an order, takes contracts off the position ePos: it
\* was sized as a close, and it sells what was bought or buys what was sold.
eReduces(d) ==
  d.action \in {"BUY", "SELL"} =>
    /\ d.isClose
    /\ d.action = IF ePos.posSide = "short" THEN "BUY" ELSE "SELL"

\* C40: for an instrument that holds a position in the snapshot, every BUY
\* or SELL decision of either engine reduces that position; none opens or
\* adds to one.
C40_NoOpeningOnHeldInstrument ==
  (ePhase = "out" /\ hasPosition(ePos)) => (eReduces(eDec) /\ eReduces(eDecR))

====
